---- MODULE Spec2Model ----
(***************************************************************************)
(* Sigma Gloves chatbot: the text-matching engines.                        *)
(*                                                                         *)
(*   IM_  IntentMatcher                 src/assets/intent_matcher.js       *)
(*   KE_  KnowledgeEngine v1.3          src/assets/knowledge_engine.js     *)
(*   V3_  IndustryIndexer v3.0          src/unnamed/part_000, lines 1-533  *)
(*   DI_  IndustryIndexer (dictionary)  src/unnamed/part_000, lines 539-795*)
(*   PW_  ProductMatcher (weights)      src/unnamed/part_000, lines 797-1074*)
(*   PT_  ProductMatcher (tags)         src/unnamed/part_000, lines 1076-1423*)
(*                                                                         *)
(* A JavaScript string is a sequence of characters; a character is a TLA+  *)
(* string naming it.  ASCII characters name themselves; the others are     *)
(*   "AY" U+064A arabic yeh        "PY" U+06CC farsi yeh                   *)
(*   "HY" U+0626 yeh with hamza    "AK" U+0643 arabic kaf                  *)
(*   "PK" U+06A9 keheh             "AL" U+0627 alef                        *)
(*   "AM" U+0622 alef with madda   "HE" U+0647 heh                         *)
(*   "TM" U+0629 teh marbuta       "AC" U+060C arabic comma                *)
(*   "JM" U+062C jeem              "WW" U+0648 waw                         *)
(*   "SH" U+0634 sheen             "RE" U+0631 reh                         *)
(*   "MM" U+0645 meem              "NN" U+0646 noon                        *)
(*   "SN" U+0633 seen              "TE" U+062A teh                         *)
(*   "BE" U+0628 beh               "LM" U+0644 lam                         *)
(*   "GH" U+063A ghain             "KH" U+062E khah                        *)
(*   "HA" U+062D hah               "DL" U+062F dal                         *)
(*   "FE" U+0641 feh               "ZE" U+0632 zain                        *)
(*   "ZD" U+0636 dad               "FT" U+064E fatha (a diacritic)         *)
(*   "TA" U+0637 tah               "EM" U+2014 em dash                     *)
(*   "P0".."P9" U+06F0..U+06F9 extended arabic-indic digits                *)
(*   "ZW" U+200C zero width non-joiner                                     *)
(* Every asynchronous function is cut at its awaits: one action is one     *)
(* run-to-completion segment of the JavaScript event loop.                 *)
(***************************************************************************)
EXTENDS Integers, Sequences, FiniteSets, TLC

VARIABLES
    \* ---- normalizers (pure functions applied to an input) ----
    nIn, nFn, nOut, nOut2,
    \* ---- IndustryIndexer v3.0 ----
    INDUSTRIES,      \* the catalog: entries {code, name_fa, name_en, keywords}
    keywordIndex,    \* the Map, in insertion order: entries {key, inds}
    v3Load,          \* the loadFromJSON call in flight, between its awaits
    v3Call,          \* the segment that ran last: its input, its outcome and
                     \* the catalog and index it started from
    \* ---- KnowledgeEngine ----
    kb,              \* _kb
    indexInitialized,\* _indexInitialized
    intentKeywords,  \* _intentKeywords
    kbPath,          \* _kbPath ("" for null or an empty path)
    keTasks,         \* the async calls in flight, each at one of its awaits
    keCall,          \* the segment that ran last and what it returned
    keLastGood,      \* history: _kb as the last successful init left it
    keQuery,         \* the query call that returned last and its result
    \* ---- IndustryIndexer (dictionary-based) ----
    dict,            \* the loaded dictionary (kind "null" before any load)
    industryIndex,   \* code -> normalized aliases, in key order
    diLoad,          \* the init call in flight, between its awaits
    diCall,          \* the segment that ran last, its payload, its outcome
                     \* and the dict and index it started from
    \* ---- scores as functions of the query (pure functions) ----
    monoIn,          \* a query q, an entity e and a token t that matches e
    monoFn,          \* the scoring function applied last
    monoOut,         \* the score of e for q and for q with t added
    \* ---- ProductMatcher (weight-based) ----
    products,        \* the loaded products
    ready,           \* set by the first init that succeeds
    pwLoad,          \* the init(url) call in flight, between its awaits
    pwCall,          \* the segment that ran last, its input and its outcome
    \* ---- ProductMatcher (tag-based) ----
    catalog,         \* the active catalog, [] before the first init
    ptLoad,          \* the init(path) call in flight, between its awaits
    ptCall,          \* the segment that ran last, its query and its result
    \* ---- IntentMatcher ----
    imDict,          \* dict, null before the first init that succeeds
    imLoad,          \* the init call in flight, between its awaits
    imCall,          \* the segment that ran last, its text and its result
    \* ---- the matchers called twice ----
    detEngine,       \* the engine under test
    detPrev          \* whether its matcher was called twice, and the first result

normVars == <<nIn, nFn, nOut, nOut2>>
v3Vars == <<INDUSTRIES, keywordIndex, v3Load, v3Call>>
keVars == <<kb, indexInitialized, intentKeywords, kbPath, keTasks, keCall, keQuery,
            keLastGood>>
diVars == <<dict, industryIndex, diLoad, diCall>>
monoVars == <<monoIn, monoFn, monoOut>>
pwVars == <<products, ready, pwLoad, pwCall>>
ptVars == <<catalog, ptLoad, ptCall>>
imVars == <<imDict, imLoad, imCall>>
detVars == <<detEngine, detPrev>>

----------------------------------------------------------------------------
(* Characters *)

LatinLower ==
    {"a","b","c","d","e","f","g","h","i","j","k","l","m",
     "n","o","p","q","r","s","t","u","v","w","x","y","z"}

LatinUpper ==
    {"A","B","C","D","E","F","G","H","I","J","K","L","M",
     "N","O","P","Q","R","S","T","U","V","W","X","Y","Z"}

AsciiDigits == {"0","1","2","3","4","5","6","7","8","9"}

PersianDigits == {"P0","P1","P2","P3","P4","P5","P6","P7","P8","P9"}

ArabicLetters ==
    {"AY", "PY", "HY", "AK", "PK", "AL", "AM", "HE", "TM",
     "JM", "WW", "SH", "RE", "MM", "NN", "SN", "TE",
     "BE", "LM", "GH", "KH", "HA", "DL", "FE", "ZE", "ZD", "TA"}

\* the block U+0600..U+06FF, as far as the alphabet goes
ArabicBlock == ArabicLetters \cup PersianDigits \cup {"AC", "FT"}

\* \s
IsSpace(c) == c = " "

\* \p{L}
IsLetter(c) == c \in LatinLower \cup LatinUpper \cup ArabicLetters

\* \p{N}
IsNumber(c) == c \in AsciiDigits \cup PersianDigits

\* String.prototype.toLowerCase, one character
ToLowerChar(c) ==
    LET ABC == <<"A","B","C","D","E","F","G","H","I","J","K","L","M",
                 "N","O","P","Q","R","S","T","U","V","W","X","Y","Z">>
        abc == <<"a","b","c","d","e","f","g","h","i","j","k","l","m",
                 "n","o","p","q","r","s","t","u","v","w","x","y","z">>
    IN  IF c \in LatinUpper
        THEN abc[CHOOSE i \in DOMAIN ABC : ABC[i] = c]
        ELSE c

----------------------------------------------------------------------------
(* String primitives *)

MapStr(F(_), s) == [i \in 1..Len(s) |-> F(s[i])]

toLowerCase(s) == MapStr(ToLowerChar, s)

RECURSIVE DropLeadingWs(_)
DropLeadingWs(s) ==
    IF s # <<>> /\ IsSpace(Head(s)) THEN DropLeadingWs(Tail(s)) ELSE s

RECURSIVE DropTrailingWs(_)
DropTrailingWs(s) ==
    IF s # <<>> /\ IsSpace(s[Len(s)])
    THEN DropTrailingWs(SubSeq(s, 1, Len(s) - 1))
    ELSE s

\* String.prototype.trim
trim(s) == DropTrailingWs(DropLeadingWs(s))

\* s.replace(/\s+/g, ' ')
RECURSIVE CollapseWs(_)
CollapseWs(s) ==
    IF s = <<>> THEN <<>>
    ELSE IF IsSpace(Head(s))
         THEN <<" ">> \o CollapseWs(DropLeadingWs(s))
         ELSE <<Head(s)>> \o CollapseWs(Tail(s))

\* s.replace(/[set]/g, '')
RECURSIVE RemoveChars(_, _)
RemoveChars(s, set) ==
    IF s = <<>> THEN <<>>
    ELSE IF Head(s) \in set
         THEN RemoveChars(Tail(s), set)
         ELSE <<Head(s)>> \o RemoveChars(Tail(s), set)

\* hay.indexOf(needle) !== -1, hay.includes(needle)
includes(hay, needle) ==
    \E i \in 0..(Len(hay) - Len(needle)) :
        SubSeq(hay, i + 1, i + Len(needle)) = needle

\* s.split(' ').filter(Boolean)
RECURSIVE SplitWords(_, _)
SplitWords(s, cur) ==
    IF s = <<>>
    THEN IF cur = <<>> THEN <<>> ELSE <<cur>>
    ELSE IF Head(s) = " "
         THEN (IF cur = <<>> THEN <<>> ELSE <<cur>>) \o SplitWords(Tail(s), <<>>)
         ELSE SplitWords(Tail(s), Append(cur, Head(s)))

splitFilter(s) == SplitWords(s, <<>>)

\* words.join(' ')
RECURSIVE join(_)
join(ws) ==
    IF ws = <<>> THEN <<>>
    ELSE IF Len(ws) = 1 THEN ws[1]
    ELSE ws[1] \o <<" ">> \o join(Tail(ws))

Range(s) == {s[i] : i \in DOMAIN s}

\* arr.slice(0, n)
slice0(arr, n) == SubSeq(arr, 1, IF n <= Len(arr) THEN n ELSE Len(arr))

\* TRUE, once v has been evaluated: the folds below evaluate each step's
\* result before they take the next step, as the loops of the source do
Evaluated(v) == v = v

\* F applied to the value of v, which is computed once
Bind(v, F(_)) == CHOOSE r \in {F(x) : x \in {y \in {v} : y = y}} : TRUE

----------------------------------------------------------------------------
(* IntentMatcher.normalizeFa *)

\* String.fromCharCode(48 + '0'.charCodeAt(0) - d.charCodeAt(0)) with the
\* Persian zero as '0': code 48 - k for the digit of value k
IM_DigitChar(c) ==
    CASE c = "P0" -> "0"
      [] c = "P1" -> "/"
      [] c = "P2" -> "."
      [] c = "P3" -> "-"
      [] c = "P4" -> ","
      [] c = "P5" -> "+"
      [] c = "P6" -> "*"
      [] c = "P7" -> ")"
      [] c = "P8" -> "("
      [] c = "P9" -> "'"
      [] OTHER -> c

IM_FoldChar(c) ==
    IF c = "AY" THEN "PY" ELSE IF c = "AK" THEN "PK" ELSE IM_DigitChar(c)

\* [^\p{L}\p{N}\s] -> ' '
StripPunctChar(c) == IF IsLetter(c) \/ IsNumber(c) \/ IsSpace(c) THEN c ELSE " "

IM_normalizeFa(s) ==
    IF s = <<>> THEN <<>>
    ELSE CollapseWs(MapStr(StripPunctChar,
             MapStr(IM_FoldChar, toLowerCase(trim(s)))))

----------------------------------------------------------------------------
(* IndustryIndexer (dictionary-based): normalize, tokensOf *)

\* String(d.charCodeAt(0) - 1776)
DI_DigitChar(c) ==
    CASE c = "P0" -> "0"
      [] c = "P1" -> "1"
      [] c = "P2" -> "2"
      [] c = "P3" -> "3"
      [] c = "P4" -> "4"
      [] c = "P5" -> "5"
      [] c = "P6" -> "6"
      [] c = "P7" -> "7"
      [] c = "P8" -> "8"
      [] c = "P9" -> "9"
      [] OTHER -> c

DI_FoldChar(c) ==
    IF c = "AY" THEN "PY" ELSE IF c = "AK" THEN "PK" ELSE DI_DigitChar(c)

DI_normalize(s) ==
    IF s = <<>> THEN <<>>
    ELSE CollapseWs(MapStr(StripPunctChar,
             MapStr(DI_FoldChar, toLowerCase(trim(s)))))

DI_tokensOf(s) == splitFilter(DI_normalize(s))

----------------------------------------------------------------------------
(* IndustryIndexer v3.0: normalizeText, tokensOf *)

V3_FoldChar(c) ==
    CASE c = "AY" -> "PY"
      [] c = "AK" -> "PK"
      [] c = "AM" -> "AL"
      [] c = "TM" -> "HE"
      [] OTHER -> c

\* [^U+0600-U+06FF a-z 0-9 \s - /] with flags gi -> ' '
V3_KeepChar(c) ==
    IF \/ c \in ArabicBlock
       \/ c \in LatinLower \cup LatinUpper
       \/ c \in AsciiDigits
       \/ IsSpace(c)
       \/ c \in {"-", "/"}
    THEN c ELSE " "

\* [\-\/_] -> ' '
V3_SepChar(c) == IF c \in {"-", "/", "_"} THEN " " ELSE c

V3_normalizeText(s) ==
    trim(CollapseWs(MapStr(V3_SepChar, MapStr(V3_KeepChar,
        toLowerCase(MapStr(V3_FoldChar, s))))))

V3_tokensOf(s) ==
    SelectSeq(splitFilter(V3_normalizeText(s)), LAMBDA t : Len(t) >= 2)

----------------------------------------------------------------------------
(* KnowledgeEngine: normalizeText, tokenize *)

KE_normalizeText(s) ==
    trim(CollapseWs(MapStr(StripPunctChar,
        RemoveChars(toLowerCase(s), {"ZW"}))))

KE_tokenize(s) == splitFilter(KE_normalizeText(s))

----------------------------------------------------------------------------
(* Rational numbers n/d with d > 0, for the scores *)

Rat(n, d) == [n |-> n, d |-> d]

RatLt(a, b) == a.n * b.d < b.n * a.d

RatLeq(a, b) == a.n * b.d <= b.n * a.d

RatMin(a, b) == IF RatLeq(a, b) THEN a ELSE b

RatMax(a, b) == IF RatLeq(b, a) THEN a ELSE b

RatEq(a, b) == a.n * b.d = b.n * a.d

RECURSIVE GCD(_, _)
GCD(a, b) == IF b = 0 THEN a ELSE Bind(a % b, LAMBDA r : GCD(b, r))

\* n/d in lowest terms, for n >= 0
RatReduced(n, d) ==
    Bind(GCD(n, d), LAMBDA g : Rat(n \div g, d \div g))

RatAdd(a, b) == RatReduced(a.n * b.d + b.n * a.d, a.d * b.d)

RatMul(a, b) == RatReduced(a.n * b.n, a.d * b.d)

\* Number(x.toFixed(3)) for x >= 0: the nearest multiple of 1/1000
toFixed3(x) == Rat((2000 * x.n + x.d) \div (2 * x.d), 1000)

\* Array.prototype.sort with a consistent comparator (the sort is stable):
\* Less(a, b) stands for comparator(a, b) < 0
StableSort(s, Less(_, _)) ==
    Bind(s, LAMBDA a :
        LET rank(i) == 1 + Cardinality({j \in DOMAIN a :
                            \/ Less(a[j], a[i])
                            \/ ~Less(a[i], a[j]) /\ j < i})
        IN  [r \in DOMAIN a |-> a[CHOOSE i \in DOMAIN a : rank(i) = r]])

Max(a, b) == IF a >= b THEN a ELSE b

\* the elements of s in order of first occurrence
RECURSIVE Dedup(_, _)
Dedup(s, seen) ==
    IF s = <<>> THEN <<>>
    ELSE IF Head(s) \in seen
         THEN Dedup(Tail(s), seen)
         ELSE <<Head(s)>> \o Dedup(Tail(s), seen \cup {Head(s)})

Count(s, x) == Cardinality({j \in DOMAIN s : s[j] = x})

RECURSIVE Flatten(_)
Flatten(ss) == IF ss = <<>> THEN <<>> ELSE Head(ss) \o Flatten(Tail(ss))

\* the UTF-16 code units of the characters that are neither ASCII letters
\* nor digits
OtherCodeUnits ==
    <<
        <<" ", 32>>, <<"!", 33>>, <<"(", 40>>, <<")", 41>>, <<"+", 43>>,
        <<"-", 45>>, <<":", 58>>, <<"_", 95>>, <<"AC", 1548>>,
        <<"AM", 1570>>, <<"HY", 1574>>, <<"AL", 1575>>, <<"BE", 1576>>,
        <<"TM", 1577>>, <<"TE", 1578>>, <<"JM", 1580>>, <<"HA", 1581>>,
        <<"KH", 1582>>, <<"DL", 1583>>, <<"RE", 1585>>, <<"ZE", 1586>>,
        <<"SN", 1587>>, <<"SH", 1588>>, <<"ZD", 1590>>, <<"TA", 1591>>,
        <<"GH", 1594>>, <<"FE", 1601>>, <<"AK", 1603>>, <<"LM", 1604>>,
        <<"MM", 1605>>, <<"NN", 1606>>, <<"HE", 1607>>, <<"WW", 1608>>,
        <<"AY", 1610>>, <<"FT", 1614>>, <<"PK", 1705>>, <<"PY", 1740>>,
        <<"ZW", 8204>>, <<"EM", 8212>>
    >>

\* the UTF-16 code unit of a character
CodeUnit(c) ==
    LET ABC == <<"A","B","C","D","E","F","G","H","I","J","K","L","M",
                 "N","O","P","Q","R","S","T","U","V","W","X","Y","Z">>
        abc == <<"a","b","c","d","e","f","g","h","i","j","k","l","m",
                 "n","o","p","q","r","s","t","u","v","w","x","y","z">>
    IN  IF c \in LatinLower THEN 96 + CHOOSE i \in DOMAIN abc : abc[i] = c
        ELSE IF c \in LatinUpper
             THEN 64 + CHOOSE i \in DOMAIN ABC : ABC[i] = c
        ELSE IF c \in AsciiDigits
             THEN 48 + CHOOSE n \in 0..9 : ToString(n) = c
        ELSE IF c \in PersianDigits
             THEN 1776 + CHOOSE n \in 0..9 : "P" \o ToString(n) = c
        ELSE LET k == CHOOSE k \in DOMAIN OtherCodeUnits :
                          OtherCodeUnits[k][1] = c
             IN  OtherCodeUnits[k][2]

\* a <= b in the lexicographic order of the code units
RECURSIVE LexLeq(_, _)
LexLeq(a, b) ==
    IF a = <<>> THEN TRUE
    ELSE IF b = <<>> THEN FALSE
    ELSE IF Head(a) = Head(b) THEN LexLeq(Tail(a), Tail(b))
    ELSE CodeUnit(Head(a)) < CodeUnit(Head(b))

----------------------------------------------------------------------------
(* IndustryIndexer v3.0: the catalog and its keyword index *)

Str_weld == <<"w","e","l","d">>
Str_arc_welding == <<"a","r","c"," ","w","e","l","d","i","n","g">>
Str_mig == <<"m","i","g">>
Str_tig == <<"t","i","g">>
Str_boilermaker == <<"b","o","i","l","e","r","m","a","k","e","r">>
Str_weld_pressure == <<"w","e","l","d"," ","p","r","e","s","s","u","r","e">>

\* The built-in list: two of its entries, each with some of its keywords.
\* Positions are 1-based here and 0-based in the source.
V3_BaseIndustries ==
    << [code |-> "welding", name_fa |-> "welding_fa", name_en |-> "Welding",
        keywords |-> <<Str_weld, Str_arc_welding, Str_mig>>],
       [code |-> "boilermaker", name_fa |-> "boilermaker_fa",
        name_en |-> "Boilermaker / Pressure Vessel",
        keywords |-> <<Str_boilermaker, Str_weld_pressure>>] >>

\* keywordIndex.get(key).add(i), creating the Set when the key is new
V3_IndexAdd(idx, key, i) ==
    IF \E j \in DOMAIN idx : idx[j].key = key
    THEN [j \in DOMAIN idx |->
            IF idx[j].key = key /\ i \notin Range(idx[j].inds)
            THEN [idx[j] EXCEPT !.inds = Append(@, i)]
            ELSE idx[j]]
    ELSE Append(idx, [key |-> key, inds |-> <<i>>])

\* for (const p of parts) if (p.length >= 2) ...
RECURSIVE V3_AddParts(_, _, _)
V3_AddParts(idx, parts, i) ==
    IF parts = <<>> THEN idx
    ELSE LET nxt == IF Len(Head(parts)) >= 2
                    THEN V3_IndexAdd(idx, Head(parts), i)
                    ELSE idx
         IN  IF Evaluated(nxt) THEN V3_AddParts(nxt, Tail(parts), i) ELSE idx

\* a rebuild that indexes the phrases and not their tokens
V3_AddKeyword_PhraseOnly(idx, k, i) ==
    LET nk == V3_normalizeText(k)
    IN  IF nk = <<>> THEN idx ELSE V3_IndexAdd(idx, nk, i)

\* the body of the loop over ind.keywords
V3_AddKeyword(idx, k, i) ==
    LET nk == V3_normalizeText(k)
    IN  IF nk = <<>> THEN idx
        ELSE V3_AddParts(V3_IndexAdd(idx, nk, i), splitFilter(nk), i)

RECURSIVE V3_AddKeywords(_, _, _)
V3_AddKeywords(idx, kws, i) ==
    IF kws = <<>> THEN idx
    ELSE LET nxt == V3_AddKeyword(idx, Head(kws), i)
         IN  IF Evaluated(nxt) THEN V3_AddKeywords(nxt, Tail(kws), i) ELSE idx

RECURSIVE V3_BuildFrom(_, _, _)
V3_BuildFrom(idx, inds, i) ==
    IF i > Len(inds) THEN idx
    ELSE LET nxt == V3_AddKeywords(idx, inds[i].keywords, i)
         IN  IF Evaluated(nxt) THEN V3_BuildFrom(nxt, inds, i + 1) ELSE idx

\* a rebuild that stops before the last industry
V3_buildIndex_Partial(inds) ==
    V3_BuildFrom(<<>>, SubSeq(inds, 1, Len(inds) - 1), 1)

\* keywordIndex.clear(), then the loops over INDUSTRIES
V3_buildIndex(inds) == V3_BuildFrom(<<>>, inds, 1)

----------------------------------------------------------------------------
(* IndustryIndexer v3.0: bestMatch *)

V3_DefaultThreshold == Rat(1, 4)

V3_NoResult ==
    [found |-> FALSE, code |-> "", name_fa |-> "", name_en |-> "",
     score |-> Rat(0, 1), matched |-> "", key |-> <<>>, sub |-> <<>>]

V3_Result(ind, score, matched, key, sub) ==
    [found |-> TRUE, code |-> ind.code, name_fa |-> ind.name_fa,
     name_en |-> ind.name_en, score |-> score, matched |-> matched,
     key |-> key, sub |-> sub]

\* let best = null; for (...) if (!best || s > best.score) best = ...:
\* the first position of order whose score no other exceeds
V3_FirstBest(order, S(_)) ==
    CHOOSE j \in DOMAIN order :
        /\ \A k \in DOMAIN order : ~RatLt(S(order[j]), S(order[k]))
        /\ \A k \in 1..(j - 1) : RatLt(S(order[k]), S(order[j]))

\* some 4-character slice of key occurs in txt
V3_SliceHit(txt, key) ==
    \E i \in 0..(Len(key) - 4) : includes(txt, SubSeq(key, i + 1, i + 4))

V3_bestMatch(IND, KI, raw, threshold) ==
    LET txt == V3_normalizeText(raw)
        nKw(idx) == Max(1, Len(IND[idx].keywords))
        \* 1) keys that occur in the text
        found == Flatten([j \in DOMAIN KI |->
                     IF includes(txt, KI[j].key) THEN KI[j].inds ELSE <<>>])
        order1 == Dedup(found, {})
        norm(idx) == Rat(3 * Count(found, idx), 2 * nKw(idx))
        b1 == order1[V3_FirstBest(order1, norm)]
        \* 2) token overlap
        tkns == V3_tokensOf(txt)
        hitList == Flatten([t \in DOMAIN tkns |->
                     Flatten([j \in DOMAIN KI |->
                        IF KI[j].key = tkns[t] THEN KI[j].inds ELSE <<>>])])
        order2 == Dedup(hitList, {})
        tscore(idx) == Rat(Count(hitList, idx), nKw(idx))
        b2 == order2[V3_FirstBest(order2, tscore)]
        \* 3) 4-character slices of the keys
        subKeys == {j \in DOMAIN KI :
                       Len(KI[j].key) >= 4 /\ V3_SliceHit(txt, KI[j].key)}
        j3 == CHOOSE j \in subKeys : \A k \in subKeys : j <= k
        i3 == CHOOSE i \in 0..(Len(KI[j3].key) - 4) :
                  /\ includes(txt, SubSeq(KI[j3].key, i + 1, i + 4))
                  /\ \A k \in 0..(i - 1) :
                        ~includes(txt, SubSeq(KI[j3].key, k + 1, k + 4))
        twice == Rat(2 * threshold.n, threshold.d)
    IN  IF txt = <<>> THEN V3_NoResult
        ELSE IF order1 # <<>> /\ RatLeq(Rat(1, 2), norm(b1))
        THEN V3_Result(IND[b1], Rat(1, 1), "phrase-index", <<>>, <<>>)
        ELSE IF order1 # <<>> /\ RatLeq(twice, norm(b1))
        THEN V3_Result(IND[b1], RatMin(Rat(9, 10), norm(b1)),
                       "phrase-index-weak", <<>>, <<>>)
        ELSE IF order2 # <<>> /\ RatLeq(threshold, tscore(b2))
        THEN V3_Result(IND[b2], tscore(b2), "token-overlap", <<>>, <<>>)
        ELSE IF subKeys # {}
        THEN V3_Result(IND[KI[j3].inds[1]], Rat(18, 100), "substring",
                       KI[j3].key, SubSeq(KI[j3].key, i3 + 1, i3 + 4))
        ELSE V3_NoResult

----------------------------------------------------------------------------
(* IndustryIndexer v3.0: addIndustry, loadFromJSON *)

\* An argument of addIndustry.  code = "" stands for a missing (falsy) code,
\* isNull for a null/undefined argument, kwIsArray for Array.isArray.
V3_Obj(code, name, isArr, kws) ==
    [isNull |-> FALSE, code |-> code, name_fa |-> name, name_en |-> name,
     kwIsArray |-> isArr, keywords |-> kws]

V3_NullObj ==
    [isNull |-> TRUE, code |-> "", name_fa |-> "", name_en |-> "",
     kwIsArray |-> FALSE, keywords |-> <<>>]

\* !obj || !obj.code || !Array.isArray(obj.keywords)
V3_Invalid(obj) == obj.isNull \/ obj.code = "" \/ ~obj.kwIsArray

\* the entry pushed: name || code, keywords.slice()
V3_Entry(obj) ==
    [code |-> obj.code,
     name_fa |-> IF obj.name_fa = "" THEN obj.code ELSE obj.name_fa,
     name_en |-> IF obj.name_en = "" THEN obj.code ELSE obj.name_en,
     keywords |-> obj.keywords]

\* an addIndustry that pushes before it validates
V3_addIndustry_PushFirst(IND, KI, obj) ==
    IF obj.isNull THEN [threw |-> TRUE, ind |-> IND, idx |-> KI]
    ELSE [threw |-> V3_Invalid(obj),
          ind |-> Append(IND, V3_Entry(obj)),
          idx |-> IF V3_Invalid(obj) THEN KI
                  ELSE V3_buildIndex(Append(IND, V3_Entry(obj)))]

\* addIndustry(obj) on the catalog IND and the index KI
V3_addIndustry(IND, KI, obj) ==
    IF V3_Invalid(obj)
    THEN [threw |-> TRUE, ind |-> IND, idx |-> KI]
    ELSE [threw |-> FALSE,
          ind |-> Append(IND, V3_Entry(obj)),
          idx |-> V3_buildIndex(Append(IND, V3_Entry(obj)))]

\* for (const obj of arr) { try { addIndustry(obj) } catch (e) {} }
RECURSIVE V3_AddAll(_, _, _)
V3_AddAll(IND, KI, arr) ==
    IF arr = <<>> THEN [ind |-> IND, idx |-> KI]
    ELSE LET r == V3_addIndustry(IND, KI, Head(arr))
         IN  IF Evaluated(r) THEN V3_AddAll(r.ind, r.idx, Tail(arr))
             ELSE [ind |-> IND, idx |-> KI]

\* the same loop without the inner try: the first invalid record ends it
RECURSIVE V3_AddUntilThrow(_, _, _)
V3_AddUntilThrow(IND, KI, arr) ==
    IF arr = <<>> THEN [threw |-> FALSE, ind |-> IND, idx |-> KI]
    ELSE LET r == V3_addIndustry(IND, KI, Head(arr))
         IN  IF Evaluated(r) /\ ~r.threw
             THEN V3_AddUntilThrow(r.ind, r.idx, Tail(arr))
             ELSE [threw |-> TRUE, ind |-> IND, idx |-> KI]

\* a parsed body: isArray for Array.isArray(arr); items are its records, or,
\* for a body that is no array, the records it wraps ({"industries": [...]})
V3_Payload(isArr, items) == [isArray |-> isArr, items |-> items]

\* a load whose loop has no inner try
V3_loadBody_AbortOnInvalid(IND, KI, payload) ==
    IF ~payload.isArray
    THEN [ret |-> "false", ind |-> IND, idx |-> KI]
    ELSE LET r == V3_AddUntilThrow(IND, KI, payload.items)
         IN  [ret |-> IF r.threw THEN "false" ELSE "true",
              ind |-> r.ind, idx |-> r.idx]

\* a load that reports a wrapped list as a failure after adding its records
V3_loadBody_AddsThenFails(IND, KI, payload) ==
    LET r == V3_AddAll(IND, KI, payload.items)
    IN  [ret |-> IF payload.isArray THEN "true" ELSE "false",
         ind |-> r.ind, idx |-> r.idx]

\* loadFromJSON after res.json() has resolved with payload
V3_loadBody(IND, KI, payload) ==
    IF ~payload.isArray
    THEN [ret |-> "false", ind |-> IND, idx |-> KI]
    ELSE LET r == V3_AddAll(IND, KI, payload.items)
         IN  [ret |-> "true", ind |-> r.ind, idx |-> r.idx]

\* the calls of buildIndex() that one addIndustry(obj) makes: none when it
\* throws at the validation, one after the push
V3_rebuildsOfAdd(obj) == IF V3_Invalid(obj) THEN 0 ELSE 1

\* the calls of buildIndex() in the loop of loadFromJSON, which calls
\* addIndustry for every record of the array
RECURSIVE V3_rebuildsOfLoop(_)
V3_rebuildsOfLoop(arr) ==
    IF arr = <<>> THEN 0
    ELSE V3_rebuildsOfAdd(Head(arr)) + V3_rebuildsOfLoop(Tail(arr))

\* the calls of buildIndex() in loadFromJSON after res.json() has resolved
\* with payload
V3_rebuildsOfLoad(payload) ==
    IF ~payload.isArray THEN 0 ELSE V3_rebuildsOfLoop(payload.items)

----------------------------------------------------------------------------
(* IndustryIndexer v3.0: the inputs and the state machine *)

MaxAdded == 2

Str_GasCut == <<"G","a","s","-","C","u","t">>
Str_bang == <<"!","!">>
Str_ab == <<"a","b">>
Str_cd == <<"c","d">>
Str_ef == <<"e","f">>
Str_gh == <<"g","h">>
Str_weldx == <<"w","e","l","d","e","r">>
Str_migmig == <<"m","i","g"," ","m","i","g">>
Str_eldi == <<"e","l","d","i">>
Str_ab6 == <<"a","b"," ","a","b"," ","a","b"," ","a","b"," ","a","b"," ","a","b">>

V3_ObjX == V3_Obj("x", "", TRUE, <<Str_mig>>)
V3_ObjY == V3_Obj("y", "Y", TRUE, <<Str_GasCut, Str_bang>>)
V3_ObjDup == V3_Obj("welding", "", TRUE, <<Str_tig>>)
V3_ObjZ == V3_Obj("z", "", TRUE, <<Str_ab, Str_cd, Str_ef, Str_gh, Str_tig>>)
V3_ObjNoCode == V3_Obj("", "n", TRUE, <<Str_tig>>)
V3_ObjNoList == V3_Obj("q", "", FALSE, <<>>)

V3_Objects ==
    {V3_ObjX, V3_ObjY, V3_ObjDup, V3_ObjZ, V3_ObjNoCode, V3_ObjNoList,
     V3_NullObj}

V3_Payloads ==
    { V3_Payload(TRUE, <<V3_ObjNoCode, V3_ObjY, V3_NullObj, V3_ObjX>>),
      V3_Payload(TRUE, <<V3_ObjZ>>),
      V3_Payload(TRUE, <<V3_ObjNoList>>),
      V3_Payload(TRUE, <<>>),
      V3_Payload(FALSE, <<V3_ObjX>>),
      V3_Payload(FALSE, <<>>) }

V3_Texts ==
    {<<>>, Str_bang, Str_mig, Str_tig, Str_weld, Str_GasCut, Str_weldx,
     Str_migmig, Str_eldi, Str_weld_pressure, Str_ab, Str_ab6}

V3_Thresholds == {V3_DefaultThreshold, Rat(1, 10)}

V3_NoPayload == V3_Payload(FALSE, <<>>)

V3_CallRec(op, ret, obj, payload, text, thr, res, IND, KI) ==
    [op |-> op, ret |-> ret, obj |-> obj, payload |-> payload, text |-> text,
     thr |-> thr, result |-> res, preInd |-> IND, preIdx |-> KI]

V3_Init ==
    /\ INDUSTRIES = V3_BaseIndustries
    /\ keywordIndex = V3_buildIndex(V3_BaseIndustries)
    /\ v3Load = "idle"
    /\ v3Call = V3_CallRec("load", "", V3_NullObj, V3_NoPayload, <<>>,
                           V3_DefaultThreshold, V3_NoResult,
                           V3_BaseIndustries, V3_buildIndex(V3_BaseIndustries))

V3_Room(n) == Len(INDUSTRIES) + n <= Len(V3_BaseIndustries) + MaxAdded

V3_NumValid(arr) == Cardinality({j \in DOMAIN arr : ~V3_Invalid(arr[j])})

\* addIndustry(obj)
V3_AddIndustry ==
    \E obj \in V3_Objects :
        LET r == V3_addIndustry(INDUSTRIES, keywordIndex, obj)
        IN  /\ V3_Room(IF r.threw THEN 0 ELSE 1)
            /\ INDUSTRIES' = r.ind
            /\ keywordIndex' = r.idx
            /\ v3Call' = V3_CallRec("addIndustry",
                             IF r.threw THEN "throw" ELSE "true", obj,
                             V3_NoPayload, <<>>, V3_DefaultThreshold,
                             V3_NoResult, INDUSTRIES, keywordIndex)
            /\ UNCHANGED v3Load

\* bestMatch(text, {threshold})
V3_BestMatch ==
    \E text \in V3_Texts, thr \in V3_Thresholds :
        /\ v3Call' = V3_CallRec("bestMatch", "result", V3_NullObj,
                         V3_NoPayload, text, thr,
                         V3_bestMatch(INDUSTRIES, keywordIndex, text, thr),
                         INDUSTRIES, keywordIndex)
        /\ UNCHANGED <<INDUSTRIES, keywordIndex, v3Load>>

\* loadFromJSON(url) up to await fetch(url)
V3_LoadStart ==
    /\ v3Load = "idle"
    /\ v3Load' = "fetch"
    /\ v3Call' = V3_CallRec("loadFromJSON.start", "pending", V3_NullObj,
                     V3_NoPayload, <<>>, V3_DefaultThreshold, V3_NoResult,
                     INDUSTRIES, keywordIndex)
    /\ UNCHANGED <<INDUSTRIES, keywordIndex>>

\* fetch rejects, or resolves with !res.ok: the catch returns false
V3_LoadFetchFail ==
    /\ v3Load = "fetch"
    /\ v3Load' = "idle"
    /\ \E why \in {"fetch rejected", "status not ok"} :
        v3Call' = V3_CallRec("loadFromJSON:" \o why, "false", V3_NullObj,
                      V3_NoPayload, <<>>, V3_DefaultThreshold, V3_NoResult,
                      INDUSTRIES, keywordIndex)
    /\ UNCHANGED <<INDUSTRIES, keywordIndex>>

\* fetch resolves with res.ok: up to await res.json()
V3_LoadFetchOk ==
    /\ v3Load = "fetch"
    /\ v3Load' = "json"
    /\ v3Call' = V3_CallRec("loadFromJSON.fetched", "pending", V3_NullObj,
                     V3_NoPayload, <<>>, V3_DefaultThreshold, V3_NoResult,
                     INDUSTRIES, keywordIndex)
    /\ UNCHANGED <<INDUSTRIES, keywordIndex>>

\* res.json() rejects (the body is not JSON): the catch returns false
V3_LoadJsonFail ==
    /\ v3Load = "json"
    /\ v3Load' = "idle"
    /\ v3Call' = V3_CallRec("loadFromJSON:body not json", "false", V3_NullObj,
                     V3_NoPayload, <<>>, V3_DefaultThreshold, V3_NoResult,
                     INDUSTRIES, keywordIndex)
    /\ UNCHANGED <<INDUSTRIES, keywordIndex>>

\* res.json() resolves: the array check, the loop, the return
V3_LoadJsonDone ==
    \E payload \in V3_Payloads :
        LET r == V3_loadBody(INDUSTRIES, keywordIndex, payload)
        IN  /\ v3Load = "json"
            /\ V3_Room(V3_NumValid(payload.items))
            /\ v3Load' = "idle"
            /\ INDUSTRIES' = r.ind
            /\ keywordIndex' = r.idx
            /\ v3Call' = V3_CallRec("loadFromJSON", r.ret, V3_NullObj,
                             payload, <<>>, V3_DefaultThreshold, V3_NoResult,
                             INDUSTRIES, keywordIndex)

----------------------------------------------------------------------------
(* KnowledgeEngine: the scores *)

\* CFG
KE_tokenOverlapWeight == Rat(45, 100)
KE_lcsWeight == Rat(35, 100)
KE_keywordHitWeight == Rat(20, 100)
KE_minScoreThreshold == Rat(1, 10)
KE_defaultTopN == 6

\* one row of a table dp of lcsLength: cur holds dp[i][0..j-1] at the
\* positions 1..j, prev the row dp[i-1], ai the element a[i-1]
RECURSIVE KE_lcsRow(_, _, _, _)
KE_lcsRow(prev, ai, b, cur) ==
    LET j == Len(cur)
    IN  IF j > Len(b) THEN cur
        ELSE Bind(Append(cur, IF ai = b[j] THEN prev[j] + 1
                              ELSE Max(prev[j + 1], cur[j])),
                  LAMBDA nxt : KE_lcsRow(prev, ai, b, nxt))

RECURSIVE KE_lcsRows(_, _, _, _)
KE_lcsRows(prev, a, b, i) ==
    IF i > Len(a) THEN prev
    ELSE Bind(KE_lcsRow(prev, a[i], b, <<0>>),
              LAMBDA cur : KE_lcsRows(cur, a, b, i + 1))

\* the table dp of lcsLength over two sequences, of characters or of tokens
KE_lcsTable(a, b) ==
    IF Len(a) = 0 \/ Len(b) = 0 THEN 0
    ELSE KE_lcsRows([j \in 1..(Len(b) + 1) |-> 0], a, b, 1)[Len(b) + 1]

KE_lcsLength(a, b) ==
    IF Len(a) = 0 \/ Len(b) = 0 THEN 0
    ELSE IF Len(a) > 300 \/ Len(b) > 300
    THEN KE_lcsTable(KE_tokenize(a), KE_tokenize(b))
    ELSE KE_lcsTable(a, b)

KE_tokenOverlapScore(a, b) ==
    LET A == Range(KE_tokenize(a))
        B == Range(KE_tokenize(b))
    IN  IF A = {} \/ B = {} THEN Rat(0, 1)
        ELSE Rat(Cardinality(A \cap B), Cardinality(A \cup B))

KE_lcsRatio(a, b) ==
    LET maxLen == IF Max(Len(a), Len(b)) = 0 THEN 1 ELSE Max(Len(a), Len(b))
    IN  RatMin(Rat(1, 1), Rat(KE_lcsLength(a, b), maxLen))

\* \w of a regular expression with the flags iu
KE_WordChar(c) == c \in LatinLower \cup LatinUpper \cup AsciiDigits \cup {"_"}

\* \b between the positions i and i + 1 of s
KE_WordBoundary(s, i) ==
    (i >= 1 /\ KE_WordChar(s[i])) # (i < Len(s) /\ KE_WordChar(s[i + 1]))

\* new RegExp('\\b' + esc + '\\b', 'iu').test(txt) for a keyword kw # ''
KE_rxTest(kw, txt) ==
    \E p \in 1..(Len(txt) - Len(kw) + 1) :
        /\ toLowerCase(SubSeq(txt, p, p + Len(kw) - 1)) = toLowerCase(kw)
        /\ KE_WordBoundary(txt, p - 1)
        /\ KE_WordBoundary(txt, p + Len(kw) - 1)

KE_keywordHitScore(text, entry) ==
    LET txt == KE_normalizeText(text)
        hits == Cardinality({k \in DOMAIN entry.keywords :
                                /\ entry.keywords[k] # <<>>
                                /\ KE_rxTest(entry.keywords[k], txt)})
    IN  IF hits = 0 THEN Rat(0, 1)
        ELSE RatMin(Rat(1, 1), Rat(hits, Len(entry.keywords)))

\* scoreCandidate(text, entry).score
KE_scoreCandidate(text, entry) ==
    LET b == IF entry.title # <<>> THEN entry.title ELSE entry.snippet
    IN  RatAdd(RatMul(KE_tokenOverlapWeight, KE_tokenOverlapScore(text, b)),
               RatAdd(RatMul(KE_lcsWeight, KE_lcsRatio(text, b)),
                      RatMul(KE_keywordHitWeight,
                             KE_keywordHitScore(text, entry))))

\* one result of query
KE_Result(entry, score, fallback) ==
    [id |-> entry.id, title |-> entry.title, snippet |-> entry.snippet,
     score |-> score, fallback |-> fallback]

\* the haystack of the fallback of query
KE_hay(entry) ==
    KE_normalizeText(entry.title \o <<" ">> \o entry.snippet \o <<" ">>
                     \o join(entry.keywords))

\* the try block of query on the list _kb: raw is the text, not empty;
\* topN = 0 stands for an absent or falsy option
KE_queryBody(KB, raw, topN) ==
    Bind([k \in DOMAIN KB |-> KE_scoreCandidate(raw, KB[k])], LAMBDA sc :
        LET n == IF topN = 0 THEN KE_defaultTopN ELSE topN
            all == [k \in DOMAIN KB |-> k]
            pass == SelectSeq(all,
                        LAMBDA k : RatLeq(KE_minScoreThreshold, sc[k]))
            results == StableSort(
                [i \in DOMAIN pass |->
                    KE_Result(KB[pass[i]], sc[pass[i]], FALSE)],
                LAMBDA x, y : RatLt(y.score, x.score))
            t == KE_normalizeText(raw)
            hit == SelectSeq(all,
                       LAMBDA k : t # <<>> /\ includes(KE_hay(KB[k]), t))
            fallback == StableSort(
                [i \in DOMAIN hit |->
                    KE_Result(KB[hit[i]], Rat(5, 100), TRUE)],
                LAMBDA x, y : Len(x.title) < Len(y.title))
        IN  slice0(IF results = <<>> THEN fallback ELSE results, n))

----------------------------------------------------------------------------
(* KnowledgeEngine: init and the intent loader *)

Str_glove == <<"g","l","o","v","e">>
Str_cut_glove == <<"c","u","t"," ","g","l","o","v","e">>
Str_price == <<"p","r","i","c","e">>
Str_space == <<" ">>
Str_a_b == <<"a"," ","b">>

KE_DefaultPath == "/assets/knowledge_base_fa.json"

\* A record of a knowledge-base file.  "" stands for an absent field; k is
\* the key of the record when the file is a map of records; kwKind tells
\* whether keywords is an array, a single string or absent.  The fields
\* url, type and meta are carried through unchanged and left out.
KE_Item(k, id, code, title, name_fa, snippet, kwKind, kws) ==
    [isNull |-> FALSE, k |-> k, id |-> id, code |-> code, title |-> title,
     name_fa |-> name_fa, snippet |-> snippet, kwKind |-> kwKind,
     keywords |-> kws]

KE_NullItem ==
    [isNull |-> TRUE, k |-> "", id |-> "", code |-> "", title |-> <<>>,
     name_fa |-> <<>>, snippet |-> <<>>, kwKind |-> "absent",
     keywords |-> <<>>]

\* the callback of _kb.map: idx is the 0-based position of it
KE_normalizeEntry(it, idx) ==
    LET title == IF it.title # <<>> THEN it.title ELSE it.name_fa
        kws == IF it.kwKind = "absent" THEN <<>> ELSE it.keywords
    IN  [id |-> IF it.id # "" THEN it.id
                ELSE IF it.code # "" THEN it.code
                ELSE "kb_" \o ToString(idx),
         title |-> title,
         snippet |-> it.snippet,
         keywords |-> IF kws = <<>>
                      THEN slice0(KE_tokenize(title), 8)
                      ELSE kws]

\* a parsed body of the knowledge-base file, by the shape init tells apart:
\*   "array"      [...]                  "items"      {items: [...]}
\*   "knowledge"  {knowledge: [...]}     "knowledgeString" {knowledge: "..."}
\*   "industries" {industries: {k: record}}
\*   "object"     any other object       "null"       null
\*   "scalar"     a number, a string, a boolean
KE_Body(shape, items) == [shape |-> shape, items |-> items]

\* Object.assign({ id: k }, item)
KE_WithKey(it) == IF it.id = "" THEN [it EXCEPT !.id = it.k] ELSE it

\* the try block of init once res.json() has resolved with body: the list
\* assigned to _kb, or a throw
KE_parseBody(body) ==
    LET raw == IF body.shape = "industries"
               THEN [j \in DOMAIN body.items |-> KE_WithKey(body.items[j])]
               ELSE IF body.shape = "scalar" THEN <<>>
               ELSE body.items
    IN  IF body.shape \in {"null", "knowledgeString"}
        THEN [threw |-> TRUE, kb |-> <<>>]
        ELSE [threw |-> FALSE,
              kb |-> [j \in DOMAIN raw |-> KE_normalizeEntry(raw[j], j - 1)]]

\* the catch block of init
KE_initCatch(oldKb, oldFlag) == [kb |-> <<>>, flag |-> FALSE]

\* an intent of the intent file, as _loadIntentKeywords normalizes it
KE_Intent(id, kws) == [id |-> id, keywords |-> kws]

KE_IntentsA == <<KE_Intent("knowledge", <<Str_price>>)>>

\* what _loadIntentKeywords can leave in _intentKeywords
KE_IntentLists == {<<>>, KE_IntentsA}

MaxKETasks == 2

KE_ItemA == KE_Item("", "a", "", Str_glove, <<>>, <<>>, "array", <<Str_cut_glove>>)
KE_ItemA2 == KE_Item("", "a", "", Str_cut_glove, <<>>, <<>>, "absent", <<>>)
KE_ItemB == KE_Item("", "", "b", <<>>, Str_price, <<>>, "string", <<Str_price>>)
KE_ItemK == KE_Item("w", "", "", Str_glove, <<>>, Str_price, "absent", <<>>)
KE_ItemS == KE_Item("s", "", "", Str_a_b, <<>>, <<>>, "absent", <<>>)

KE_Bodies ==
    { KE_Body("array", <<KE_ItemA, KE_ItemB>>),
      KE_Body("array", <<KE_ItemA, KE_NullItem, KE_ItemA2>>),
      KE_Body("array", <<>>),
      KE_Body("industries", <<KE_ItemK, KE_ItemS>>),
      KE_Body("knowledgeString", <<>>),
      KE_Body("null", <<>>) }

KE_Paths == {"", KE_DefaultPath}

\* the query call that a task of init belongs to (await init(_kbPath) in
\* query), when there is one
KE_NoQ == [on |-> FALSE, text |-> <<>>, topN |-> 0]

KE_Task(pc, path) == [pc |-> pc, path |-> path, q |-> KE_NoQ]

KE_FreeTask == KE_Task("free", "")

\* the texts and the options of the query calls
KE_Texts == {<<>>, Str_space, Str_glove}

KE_TopNs == {0}

KE_NoQuery == [n |-> 0, text |-> <<>>, topN |-> 0, inited |-> FALSE,
               result |-> <<>>]

\* the record of a query call that has returned result; inited is
\* _indexInitialized as the call found it when it made the result
KE_Returned(text, topN, inited, result) ==
    [n |-> 1, text |-> text, topN |-> topN, inited |-> inited,
     result |-> result]

\* init has returned in the task t: the query call that awaited it, if any,
\* goes on with its try block on the list KB
KE_Resumed(t, KB, inited) ==
    LET q == keTasks[t].q
    IN  IF q.on
        THEN KE_Returned(q.text, q.topN, inited,
                         KE_queryBody(KB, q.text, q.topN))
        ELSE keQuery

KE_NoCall == [op |-> "load", task |-> 0, ok |-> FALSE, count |-> 0, why |-> ""]

\* After the script has run: the automatic init is suspended on the fetch of
\* the intent file (task 1)
KE_Init ==
    /\ kb = <<>>
    /\ indexInitialized = FALSE
    /\ intentKeywords = <<>>
    /\ kbPath = ""
    /\ keTasks = [t \in 1..MaxKETasks |->
                    IF t = 1 THEN KE_Task("autoIntentFetch", "")
                    ELSE KE_FreeTask]
    /\ keCall = KE_NoCall
    /\ keLastGood = <<>>
    /\ keQuery = KE_NoQuery

KE_Pending(op, t) == [op |-> op, task |-> t, ok |-> FALSE, count |-> 0, why |-> "pending"]

\* init(kbPath) up to the await inside _loadIntentKeywords
KE_InitStart ==
    \E t \in DOMAIN keTasks, path \in KE_Paths :
        /\ keTasks[t].pc = "free"
        /\ kbPath' = path
        /\ kb' = <<>>
        /\ indexInitialized' = FALSE
        /\ keTasks' = [keTasks EXCEPT ![t] = KE_Task("intentFetch", path)]
        /\ keCall' = KE_Pending("init.start", t)
        /\ UNCHANGED <<intentKeywords, keLastGood, keQuery>>

\* what follows the intent loader in the task t, with intents loaded:
\* the automatic init goes on to its HEAD request, init to its path check
\* and the fetch of the knowledge base
KE_AfterIntents(t, intents) ==
    /\ intentKeywords' = intents
    /\ IF keTasks[t].pc \in {"autoIntentFetch", "autoIntentJson"}
       THEN /\ keTasks' = [keTasks EXCEPT ![t].pc = "autoHead"]
            /\ keCall' = KE_Pending("auto.intents", t)
       ELSE IF keTasks[t].pc \in {"queryIntentFetch", "queryIntentJson"}
       THEN /\ keTasks' = [keTasks EXCEPT ![t] = KE_FreeTask]
            /\ UNCHANGED keCall
       ELSE IF keTasks[t].path = ""
       THEN /\ keTasks' = [keTasks EXCEPT ![t] = KE_FreeTask]
            /\ keCall' = [op |-> "init", task |-> t, ok |-> FALSE,
                          count |-> 0, why |-> "empty_path"]
       ELSE /\ keTasks' = [keTasks EXCEPT ![t].pc = "kbFetch"]
            /\ keCall' = KE_Pending("init.intents", t)
    /\ UNCHANGED <<kb, indexInitialized, kbPath, keLastGood, keQuery>>

\* the fetch of the intent file rejects or is not ok: _intentKeywords = []
KE_IntentFetchFail ==
    \E t \in DOMAIN keTasks :
        /\ keTasks[t].pc \in {"autoIntentFetch", "intentFetch",
                             "queryIntentFetch"}
        /\ KE_AfterIntents(t, <<>>)

\* the fetch of the intent file is ok: up to await r.json()
KE_IntentFetchOk ==
    \E t \in DOMAIN keTasks :
        /\ keTasks[t].pc \in {"autoIntentFetch", "intentFetch",
                             "queryIntentFetch"}
        /\ keTasks' = [keTasks EXCEPT ![t].pc =
                          IF @ = "intentFetch" THEN "intentJson"
                          ELSE IF @ = "queryIntentFetch"
                          THEN "queryIntentJson"
                          ELSE "autoIntentJson"]
        /\ keCall' = KE_Pending("intents.fetched", t)
        /\ UNCHANGED <<kb, indexInitialized, intentKeywords, kbPath,
                       keLastGood, keQuery>>

\* r.json() of the intent file settles: the list, or [] when it rejects
KE_IntentJsonDone ==
    \E t \in DOMAIN keTasks, intents \in KE_IntentLists :
        /\ keTasks[t].pc \in {"autoIntentJson", "intentJson",
                             "queryIntentJson"}
        /\ KE_AfterIntents(t, intents)

\* the HEAD request of the automatic init fails: nothing more happens
KE_AutoHeadFail ==
    \E t \in DOMAIN keTasks :
        /\ keTasks[t].pc = "autoHead"
        /\ keTasks' = [keTasks EXCEPT ![t] = KE_FreeTask]
        /\ keCall' = KE_Pending("auto.head", t)
        /\ UNCHANGED <<kb, indexInitialized, intentKeywords, kbPath,
                       keLastGood, keQuery>>

\* the HEAD request is ok: init(testPath) up to its first await
KE_AutoHeadOk ==
    \E t \in DOMAIN keTasks :
        /\ keTasks[t].pc = "autoHead"
        /\ kbPath' = KE_DefaultPath
        /\ kb' = <<>>
        /\ indexInitialized' = FALSE
        /\ keTasks' = [keTasks EXCEPT ![t] =
                          KE_Task("intentFetch", KE_DefaultPath)]
        /\ keCall' = KE_Pending("init.start", t)
        /\ UNCHANGED <<intentKeywords, keLastGood, keQuery>>

\* init fails in its try block: the catch block, { ok: false, error }
KE_InitFails(t, why) ==
    LET c == KE_initCatch(kb, indexInitialized)
    IN  /\ kb' = c.kb
        /\ indexInitialized' = c.flag
        /\ keTasks' = [keTasks EXCEPT ![t] = KE_FreeTask]
        /\ keCall' = [op |-> "init", task |-> t, ok |-> FALSE, count |-> 0,
                      why |-> why]
        /\ keQuery' = KE_Resumed(t, c.kb, c.flag)
        /\ UNCHANGED <<intentKeywords, kbPath, keLastGood>>

\* fetch(kbPath) rejects, or resolves with !res.ok
KE_KbFetchFail ==
    \E t \in DOMAIN keTasks, why \in {"fetch rejected", "status not ok"} :
        /\ keTasks[t].pc = "kbFetch"
        /\ KE_InitFails(t, why)

\* fetch(kbPath) is ok: up to await res.json()
KE_KbFetchOk ==
    \E t \in DOMAIN keTasks :
        /\ keTasks[t].pc = "kbFetch"
        /\ keTasks' = [keTasks EXCEPT ![t].pc = "kbJson"]
        /\ keCall' = KE_Pending("init.fetched", t)
        /\ UNCHANGED <<kb, indexInitialized, intentKeywords, kbPath,
                       keLastGood, keQuery>>

\* res.json() rejects: the body is not JSON
KE_KbJsonFail ==
    \E t \in DOMAIN keTasks :
        /\ keTasks[t].pc = "kbJson"
        /\ KE_InitFails(t, "body not json")

\* res.json() resolves: the shapes, the normalization of the entries, the
\* flag, { ok: true, count }; or a throw and the catch block
KE_KbJsonDone ==
    \E t \in DOMAIN keTasks, body \in KE_Bodies :
        LET r == KE_parseBody(body)
        IN  /\ keTasks[t].pc = "kbJson"
            /\ IF r.threw
               THEN KE_InitFails(t, "malformed")
               ELSE /\ kb' = r.kb
                    /\ indexInitialized' = TRUE
                    /\ keLastGood' = r.kb
                    /\ keTasks' = [keTasks EXCEPT ![t] = KE_FreeTask]
                    /\ keCall' = [op |-> "init", task |-> t, ok |-> TRUE,
                                  count |-> Len(r.kb), why |-> ""]
                    /\ keQuery' = KE_Resumed(t, r.kb, TRUE)
                    /\ UNCHANGED <<intentKeywords, kbPath>>

\* query(text, {topN}): to its return, or to await init(_kbPath) when the
\* knowledge base is not loaded and a path is known; the intent file is
\* asked for, without waiting, when no intents are held
KE_Query ==
    \E text \in KE_Texts, topN \in KE_TopNs :
        LET needIntents == text # <<>> /\ intentKeywords = <<>>
            needInit == text # <<>> /\ ~indexInitialized /\ kbPath # ""
            free == {t \in DOMAIN keTasks : keTasks[t].pc = "free"}
            first(S) == CHOOSE t \in S : \A u \in S : t <= u
            ti == first(free)
            tk == first(free \ (IF needIntents THEN {ti} ELSE {}))
            tasks1 == IF needIntents
                      THEN [keTasks EXCEPT ![ti] =
                               KE_Task("queryIntentFetch", "")]
                      ELSE keTasks
            result == IF text = <<>> THEN <<>>
                      ELSE KE_queryBody(kb, text, topN)
        IN  /\ Cardinality(free) >= (IF needIntents THEN 1 ELSE 0)
                                     + (IF needInit THEN 1 ELSE 0)
            /\ IF needInit
               THEN /\ keTasks' = [tasks1 EXCEPT ![tk] =
                                     [pc |-> "intentFetch", path |-> kbPath,
                                      q |-> [on |-> TRUE, text |-> text,
                                             topN |-> topN]]]
                    /\ kb' = <<>>
                    /\ indexInitialized' = FALSE
                    /\ UNCHANGED keQuery
               ELSE /\ keTasks' = tasks1
                    /\ keQuery' = KE_Returned(text, topN, indexInitialized, result)
                    /\ UNCHANGED <<kb, indexInitialized>>
            /\ UNCHANGED <<intentKeywords, kbPath, keCall, keLastGood>>

----------------------------------------------------------------------------
(* IndustryIndexer (dictionary-based): init and buildIndex *)

\* One key of data.industries.  kind tells what its value is: "list" an
\* array of aliases, "null" null or absent, "string" a string (truthy and
\* without a map method, as a number or an object would be)
DI_Entry(code, kind, aliases) ==
    [code |-> code, kind |-> kind, aliases |-> aliases]

\* A parsed dictionary file.  kind: "null" for null, "scalar" for a truthy
\* value without an industries key, "object" for an object with one
DI_Data(kind, entries) == [kind |-> kind, industries |-> entries]

DI_Null == DI_Data("null", <<>>)

\* (aliases || []).map(a => normalize(a)).filter(Boolean), made unique
DI_aliasList(e) ==
    LET list == IF e.kind = "null" THEN <<>> ELSE e.aliases
    IN  Dedup(SelectSeq([j \in DOMAIN list |-> DI_normalize(list[j])],
                        LAMBDA a : a # <<>>), {})

\* the loop of buildIndex over entries from position j on: it throws at the
\* first value that is truthy and has no map method
RECURSIVE DI_BuildFrom(_, _, _)
DI_BuildFrom(idx, entries, j) ==
    IF j > Len(entries) THEN [threw |-> FALSE, index |-> idx]
    ELSE IF entries[j].kind = "string" THEN [threw |-> TRUE, index |-> idx]
    ELSE LET nxt == Append(idx, [code |-> entries[j].code,
                                 aliases |-> DI_aliasList(entries[j])])
         IN  IF Evaluated(nxt) THEN DI_BuildFrom(nxt, entries, j + 1)
             ELSE [threw |-> FALSE, index |-> idx]

\* buildIndex(d): industryIndex = {}, then the loop
DI_buildIndex(d) == DI_BuildFrom(<<>>, d.industries, 1)

----------------------------------------------------------------------------
(* IndustryIndexer (dictionary-based): scoring and bestMatch *)

DI_MIN_SCORE == Rat(1, 10)

\* one row of the table of levenshtein: cur holds cur[0..j-1] at positions
\* 1..j, prev the row before it, ch the character a[i-1]
RECURSIVE DI_levRow(_, _, _, _)
DI_levRow(prev, ch, b, cur) ==
    LET j == Len(cur)
        cost == IF ch = b[j] THEN 0 ELSE 1
        m1 == prev[j + 1] + 1
        m2 == cur[j] + 1
        m3 == prev[j] + cost
        least == IF m1 <= m2 /\ m1 <= m3 THEN m1
                 ELSE IF m2 <= m3 THEN m2 ELSE m3
    IN  IF j > Len(b) THEN cur
        ELSE Bind(Append(cur, least), LAMBDA nxt : DI_levRow(prev, ch, b, nxt))

RECURSIVE DI_levRows(_, _, _, _)
DI_levRows(prev, a, b, i) ==
    IF i > Len(a) THEN prev
    ELSE Bind(DI_levRow(prev, a[i], b, <<i>>),
              LAMBDA cur : DI_levRows(cur, a, b, i + 1))

DI_levenshtein(a, b) ==
    IF a = b THEN 0
    ELSE IF Len(a) = 0 THEN Len(b)
    ELSE IF Len(b) = 0 THEN Len(a)
    ELSE DI_levRows([j \in 1..(Len(b) + 1) |-> j - 1], a, b, 1)[Len(b) + 1]

\* Math.max(0, 1 - d / maxL)
DI_levSim(a, b) ==
    LET maxL == Max(Len(a), Len(b))
    IN  IF maxL = 0 THEN Rat(1, 1)
        ELSE Bind(DI_levenshtein(a, b),
                  LAMBDA d : RatMax(Rat(0, 1), Rat(maxL - d, maxL)))

\* hitCount, in tenths: 1 for an alias token that is a token of the text,
\* 0.9 for one of length >= 3 that lies inside a token of the text
RECURSIVE DI_hitCount(_, _)
DI_hitCount(textTokens, aliasTokens) ==
    IF aliasTokens = <<>> THEN 0
    ELSE LET at == Head(aliasTokens)
             h == IF at \in Range(textTokens) THEN 10
                  ELSE IF Len(at) >= 3 /\ \E tt \in Range(textTokens) :
                                               includes(tt, at)
                       THEN 9 ELSE 0
         IN  h + DI_hitCount(textTokens, Tail(aliasTokens))

\* the reason strings `phrase:${alias}`, `fuzzy:${a}`,
\* `tokens:${hitCount}/${n}` and ''
DI_Reason(kind, alias, hits, n) ==
    [kind |-> kind, alias |-> alias, hits |-> hits, n |-> n]

DI_NoReason == DI_Reason("", <<>>, 0, 0)

\* the fuzzy branch without the similarity: the token ratio alone
DI_fuzzyScore_TokenRatioOnly(tokenRatio, bestSim) == tokenRatio

\* Math.max(tokenRatio, bestSim * 0.9)
DI_fuzzyScore(tokenRatio, bestSim) ==
    RatMax(tokenRatio, RatMul(bestSim, Rat(9, 10)))

\* the loop of scoreAgainstAlias over the tokens of the text: the largest
\* levSim(a, tt), 0 for a text without tokens
DI_bestSim(a, textTokens) ==
    Bind([k \in DOMAIN textTokens |-> DI_levSim(a, textTokens[k])],
         LAMBDA sims :
            IF sims = <<>> THEN Rat(0, 1)
            ELSE sims[CHOOSE k \in DOMAIN sims :
                          \A m \in DOMAIN sims : RatLeq(sims[m], sims[k])])

DI_scoreAgainstAlias(textTokens, joinedText, alias) ==
    Bind(splitFilter(alias), LAMBDA aliasTokens :
    Bind(DI_hitCount(textTokens, aliasTokens), LAMBDA hits :
    Bind(IF Len(aliasTokens) = 1 THEN DI_bestSim(aliasTokens[1], textTokens)
         ELSE Rat(0, 1), LAMBDA bestSim :
        LET n == Len(aliasTokens)
            tokenRatio == IF n > 0 THEN Rat(hits, 10 * n) ELSE Rat(0, 1)
        IN  IF includes(joinedText, alias)
            THEN [score |-> Rat(1, 1),
                  reason |-> DI_Reason("phrase", alias, 0, 0)]
            ELSE IF n = 1 /\ RatLeq(Rat(3, 4), bestSim)
            THEN [score |-> DI_fuzzyScore(tokenRatio, bestSim),
                  reason |-> DI_Reason("fuzzy", aliasTokens[1], 0, 0)]
            ELSE [score |-> RatMin(Rat(1, 1),
                                   RatMul(tokenRatio, Rat(85, 100))),
                  reason |-> DI_Reason("tokens", <<>>, hits, n)])))

\* the loop over the aliases of one industry: the first alias whose score
\* no other exceeds, when that score is above 0
DI_topAlias(textTokens, joinedText, aliases) ==
    Bind([k \in DOMAIN aliases |->
             DI_scoreAgainstAlias(textTokens, joinedText, aliases[k])],
         LAMBDA res :
            LET best == {k \in DOMAIN res :
                    /\ RatLt(Rat(0, 1), res[k].score)
                    /\ \A m \in DOMAIN res :
                           RatLeq(res[m].score, res[k].score)
                    /\ \A m \in 1..(k - 1) :
                           RatLt(res[m].score, res[k].score)}
            IN  IF best = {}
                THEN [score |-> Rat(0, 1), reason |-> DI_NoReason]
                ELSE res[CHOOSE k \in best : TRUE])

\* aliases.some(a => a.length <= 2) ? 0.9 : 1.0
DI_genericPenalty(aliases) ==
    IF \E k \in DOMAIN aliases : Len(aliases[k]) <= 2
    THEN Rat(9, 10) ELSE Rat(1, 1)

\* results.sort((a, b) => b.score - a.score)
DI_sortResults(results) ==
    StableSort(results, LAMBDA a, b : RatLt(b.score, a.score))

\* the entry that industryScoreForText pushes for one industry
DI_industryScore(textTokens, joinedText, e) ==
    Bind(DI_topAlias(textTokens, joinedText, e.aliases), LAMBDA top :
    Bind(RatMul(top.score, DI_genericPenalty(e.aliases)), LAMBDA sc0 :
        LET multiHit == Cardinality({k \in DOMAIN e.aliases :
                                        includes(joinedText, e.aliases[k])})
            bonus == RatMin(Rat(12, 100), Rat(3 * multiHit, 100))
        IN  [code |-> e.code,
             score |-> IF multiHit > 1
                       THEN RatMin(Rat(1, 1), RatAdd(sc0, bonus))
                       ELSE sc0,
             aliasMatched |-> IF RatLt(Rat(0, 1), top.score)
                              THEN e.aliases[1] ELSE <<>>,
             reason |-> top.reason]))

DI_industryScoreForText(index, text) ==
    Bind(DI_tokensOf(DI_normalize(text)), LAMBDA textTokens :
    Bind(join(textTokens), LAMBDA joinedText :
        DI_sortResults([k \in DOMAIN index |->
                           DI_industryScore(textTokens, joinedText,
                                            index[k])])))

\* the object that bestMatch makes of one result; name_fa is the first alias
\* and, for an industry without aliases, the code
DI_mapped(index, r) ==
    LET aliases == index[CHOOSE k \in DOMAIN index :
                             index[k].code = r.code].aliases
    IN  [code |-> r.code,
         name_fa |-> IF aliases # <<>> THEN aliases[1] ELSE <<r.code>>,
         score |-> toFixed3(r.score),
         reason |-> r.reason,
         aliases |-> slice0(aliases, 5)]

DI_NoMatch == [threw |-> FALSE, rawText |-> <<>>, matches |-> <<>>, all |-> <<>>]

\* bestMatch(text, {topN}) on the dictionary d and the index; text = <<>>
\* stands for '', null and undefined alike (text || ''), topN = 0 for an
\* absent or falsy option (opts.topN || 3)
DI_bestMatch(d, index, text, topN) ==
    IF d.kind = "null" THEN [DI_NoMatch EXCEPT !.threw = TRUE]
    ELSE Bind(DI_normalize(text), LAMBDA txt :
         Bind(slice0(DI_industryScoreForText(index, txt),
                     IF topN = 0 THEN 3 ELSE topN), LAMBDA all :
            [threw |-> FALSE, rawText |-> txt,
             matches |-> SelectSeq([k \in DOMAIN all |->
                                       DI_mapped(index, all[k])],
                             LAMBDA m : RatLeq(DI_MIN_SCORE, m.score)),
             all |-> all]))

----------------------------------------------------------------------------
(* IndustryIndexer (dictionary-based): the inputs and the state machine *)

MaxDILoads == 3

Str_Weld_ == <<"W","e","l","d","!">>
Str_cut == <<"c","u","t">>
Str_welder == <<"w","e","l","d","e","r">>
Str_welded == <<"w","e","l","d","e","d">>
Str_weldex == <<"w","e","l","d","e","x">>
Str_welder_ab == <<"w","e","l","d","e","r"," ","a","b">>
Str_weld_cut == <<"w","e","l","d"," ","c","u","t">>
Str_arc_weld_ == <<"a","r","c"," ","w","e","l","d","!">>
\* U+062C U+0648 U+0634 U+06A9 U+0627 U+0631 U+06CC
Str_jushkari == <<"JM","WW","SH","PK","AL","RE","PY">>
\* U+0645 U+0646, U+062C U+0648 U+0634 U+06A9 U+0627 U+0631,
\* U+0647 U+0633 U+062A U+0645
Str_man_jushkar_hastam ==
    <<"MM","NN"," ","JM","WW","SH","PK","AL","RE"," ","HE","SN","TE","MM">>

DI_Payloads ==
    { DI_Data("object", <<DI_Entry("welding", "list", <<Str_Weld_, Str_weld, Str_bang>>),
                          DI_Entry("machining", "list", <<Str_cut>>)>>),
      DI_Data("object", <<DI_Entry("welding", "list", <<Str_weld>>),
                          DI_Entry("food", "string", <<>>),
                          DI_Entry("machining", "list", <<Str_cut>>)>>),
      DI_Data("object", <<DI_Entry("food", "string", <<>>)>>),
      DI_Data("object", <<DI_Entry("welding", "list", <<Str_jushkari>>)>>),
      DI_Data("object", <<DI_Entry("metal", "list", <<Str_welded>>),
                          DI_Entry("welding", "list", <<Str_welder, Str_ab>>)>>),
      DI_Data("object", <<DI_Entry("welding", "list", <<Str_arc_weld_>>)>>),
      DI_Data("object", <<DI_Entry("metal", "list", <<Str_welded, Str_welder>>)>>),
      DI_Data("object", <<DI_Entry("welding", "list", <<Str_weld>>),
                          DI_Entry("machining", "list", <<Str_cut>>)>>),
      DI_Data("object", <<DI_Entry("general", "null", <<>>)>>),
      DI_Data("object", <<>>),
      DI_Data("scalar", <<>>),
      DI_Null }

DI_Texts ==
    {<<>>, Str_space, Str_bang, Str_weld_cut, Str_welder, Str_weldex,
     Str_welder_ab,
     Str_arc_weld_, Str_man_jushkar_hastam}

\* opts.topN: 0 stands for an absent option
DI_TopNs == {0, 1}

DI_CallRec(op, ret, data, d, idx) ==
    [op |-> op, ret |-> ret, data |-> data, preDict |-> d, preIdx |-> idx,
     text |-> <<>>, topN |-> 0, result |-> DI_NoMatch]

DI_Init ==
    /\ dict = DI_Null
    /\ industryIndex = <<>>
    /\ diLoad = [pc |-> "idle", n |-> 0]
    /\ diCall = DI_CallRec("load", "", DI_Null, DI_Null, <<>>)

\* init(jsonPath) up to await fetch(path) in loadJSON
DI_InitStart ==
    /\ diLoad.pc = "idle"
    /\ diLoad.n < MaxDILoads
    /\ diLoad' = [pc |-> "fetch", n |-> diLoad.n + 1]
    /\ diCall' = DI_CallRec("init.start", "pending", DI_Null, dict, industryIndex)
    /\ UNCHANGED <<dict, industryIndex>>

\* fetch rejects, or !r.ok: loadJSON throws and init rejects
DI_FetchFail ==
    /\ diLoad.pc = "fetch"
    /\ diLoad' = [diLoad EXCEPT !.pc = "idle"]
    /\ \E why \in {"fetch rejected", "status not ok"} :
          diCall' = DI_CallRec("init:" \o why, "rejected", DI_Null, dict,
                               industryIndex)
    /\ UNCHANGED <<dict, industryIndex>>

\* r.ok: loadJSON returns r.json(), init awaits it
DI_FetchOk ==
    /\ diLoad.pc = "fetch"
    /\ diLoad' = [diLoad EXCEPT !.pc = "json"]
    /\ diCall' = DI_CallRec("init.fetched", "pending", DI_Null, dict,
                            industryIndex)
    /\ UNCHANGED <<dict, industryIndex>>

\* r.json() rejects: init rejects
DI_JsonFail ==
    /\ diLoad.pc = "json"
    /\ diLoad' = [diLoad EXCEPT !.pc = "idle"]
    /\ diCall' = DI_CallRec("init:body not json", "rejected", DI_Null, dict,
                            industryIndex)
    /\ UNCHANGED <<dict, industryIndex>>

\* r.json() resolves with data: dict = data; buildIndex(dict); return dict
DI_JsonDone ==
    \E data \in DI_Payloads :
        LET r == DI_buildIndex(data)
        IN  /\ diLoad.pc = "json"
            /\ diLoad' = [diLoad EXCEPT !.pc = "idle"]
            /\ dict' = data
            /\ industryIndex' = r.index
            /\ diCall' = DI_CallRec("init",
                             IF r.threw THEN "rejected" ELSE "resolved",
                             data, dict, industryIndex)

\* bestMatch(text, {topN})
DI_BestMatch ==
    \E text \in DI_Texts, topN \in DI_TopNs :
        LET r == DI_bestMatch(dict, industryIndex, text, topN)
        IN  /\ diCall' = [DI_CallRec("bestMatch",
                                     IF r.threw THEN "throw" ELSE "result",
                                     DI_Null, dict, industryIndex)
                             EXCEPT !.text = text, !.topN = topN,
                                    !.result = r]
            /\ UNCHANGED <<dict, industryIndex, diLoad>>

----------------------------------------------------------------------------
(* ProductMatcher (weight-based): the scores *)

PW_hazardMatch == Rat(45, 100)
PW_envMatch == Rat(22, 100)
PW_prefMatch == Rat(15, 100)
PW_standardsScore == Rat(12, 100)
PW_baseScore == Rat(6, 100)

\* the categories of HAZARD_CATS that pickProducts reads (has('cut'),
\* has('puncture'), has('chemical')); the other six are detected and never
\* looked at
PW_HAZARD_CATS ==
    <<[cat |-> "cut", kws |->
              <<<<"c","u","t">>, <<"BE","RE","SH">>, <<"s","h","a","r","p">>,
                <<"k","n","i","f","e">>,
                <<"l","a","c","e","r","a","t","i","o","n">>, <<"LM","BE",
                        "HE">>,
                <<"TE","PY","GH">>, <<"b","l","a","d","e">>>>],
      [cat |-> "puncture", kws |->
              <<<<"p","u","n","c","t","u","r","e">>, <<"p","i","e","r","c",
                      "e">>,
                <<"SN","WW","RE","AL","KH">>, <<"NN","WW","PK">>,
                <<"n","e","e","d","l","e">>, <<"p","u","n","c","t","u",
                        "r">>>>],
      [cat |-> "chemical", kws |->
              <<<<"c","h","e","m","i","c","a","l">>, <<"a","c","i","d">>,
                <<"s","o","l","v","e","n","t">>, <<"c","h","e","m">>,
                <<"HA","LM","AL","LM">>, <<"AL","SN","PY","DL">>,
                <<"KH","WW","RE","NN","DL","HE">>,
                <<"c","h","e","m","i","c","a","l">>>>]>>

\* the categories of ENV_CATS that pickProducts reads (has('oily'),
\* has('cold'))
PW_ENV_CATS ==
    <<[cat |-> "oily", kws |->
              <<<<"o","i","l">>, <<"o","i","l","y">>,
                <<"g","r","e","a","s","e">>, <<"RE","WW","GH","NN">>,
                <<"RE","WW","GH","NN","PY">>, <<"g","r","e","a","s","y">>>>],
      [cat |-> "cold", kws |->
              <<<<"c","o","l","d">>, <<"SN","RE","DL">>,
                <<"f","r","e","e","z","e","r">>, <<"f","r","e","e","z","e">>,
                <<"FE","RE","PY","ZE","RE">>>>]>>

\* [\u064B-\u065F]
PW_Diacritics == {"FT"}

PW_FoldChar(c) ==
    CASE c = "AY" -> "PY"
      [] c = "AK" -> "PK"
      [] OTHER -> c

\* [0-9\u0600-\u06FFa-z\s\-]
PW_KeepChar(c) ==
    c \in AsciiDigits \cup ArabicBlock \cup LatinLower \cup {" ", "-"}

PW_SepChar(c) == IF PW_KeepChar(c) THEN c ELSE " "

\* normalize(s): a run of other characters becomes one space, and the
\* spaces are collapsed after it
PW_normalize(s) ==
    trim(CollapseWs(MapStr(PW_SepChar,
        toLowerCase(RemoveChars(MapStr(PW_FoldChar, trim(s)),
                                PW_Diacritics)))))

\* tokenize(s): Array.from(new Set(...)) keeps the first occurrences
PW_tokenize(s) == Dedup(splitFilter(PW_normalize(s)), {})

\* Number(m[1]) for the first run of digits of v, -1 for no match
RECURSIVE PW_DigitRun(_, _, _)
PW_DigitRun(v, started, acc) ==
    IF v = <<>> THEN (IF started THEN acc ELSE -1)
    ELSE IF Head(v) \in AsciiDigits
         THEN PW_DigitRun(Tail(v), TRUE,
                  10 * acc + (CHOOSE n \in 0..9 : ToString(n) = Head(v)))
         ELSE IF started THEN acc
         ELSE PW_DigitRun(Tail(v), FALSE, acc)

\* a value of the products file: null/undefined, a number or a string
PW_Val(kind, num, str) == [kind |-> kind, num |-> num, str |-> str]

PW_Absent == PW_Val("absent", 0, <<>>)

PW_Num(n) == PW_Val("number", n, <<>>)

PW_StrVal(s) == PW_Val("string", 0, s)

\* parseCutLevel(v): [isNull, num]
PW_parseCutLevel(v) ==
    IF v.kind = "number" THEN [isNull |-> FALSE, num |-> v.num]
    ELSE IF v.kind = "string" /\ PW_DigitRun(v.str, FALSE, 0) >= 0
         THEN [isNull |-> FALSE, num |-> PW_DigitRun(v.str, FALSE, 0)]
    ELSE [isNull |-> TRUE, num |-> 0]

\* min(1, max(0, n / by))
PW_Scaled(n, by) == RatMin(Rat(1, 1), RatMax(Rat(0, 1), Rat(n, by)))

\* computeStandardsScore(prod, hazardCats)
PW_computeStandardsScore(prod, hazardCats) ==
    IF ~prod.en388.has THEN Rat(0, 1)
    ELSE
      LET s == prod.en388
          cutVal == PW_parseCutLevel(s.cut_level)
          b1 == IF "cut" \in hazardCats /\ ~cutVal.isNull
                THEN PW_Scaled(cutVal.num, 5) ELSE Rat(0, 1)
          b2 == IF "cut" \in hazardCats /\ s.tdm_newton # 0
                THEN RatMax(b1, PW_Scaled(s.tdm_newton, 2000)) ELSE b1
          b3 == IF "puncture" \in hazardCats /\ s.puncture.kind = "number"
                THEN RatMax(b2, PW_Scaled(s.puncture.num, 5)) ELSE b2
      IN  RatMin(Rat(1, 1), b3)

\* (list || []).join(' ')
PW_joined(list) == join(list)

\* the haystack of featureMatchScore
PW_hay(prod) ==
    toLowerCase(join(<<prod.name_en, prod.name_fa,
            PW_joined(prod.features_en),
                       PW_joined(prod.features_fa),
                       PW_joined(prod.materials)>>))

\* new RegExp(escaped t).test(hay): the pattern is the token itself
PW_pattTest(t, hay) == includes(hay, t)

\* the hits of one token, in tenths
PW_hitTenths(t, hay) ==
    IF includes(hay, t) THEN 10
    ELSE IF PW_pattTest(t, hay) THEN 8
    ELSE 0

RECURSIVE PW_hits(_, _)
PW_hits(tokens, hay) ==
    IF tokens = <<>> THEN 0
    ELSE PW_hitTenths(Head(tokens), hay) + PW_hits(Tail(tokens), hay)

\* featureMatchScore(prod, tokens)
PW_featureMatchScore(prod, tokens) ==
    IF tokens = <<>> THEN Rat(0, 1)
    ELSE Bind(PW_hay(prod), LAMBDA hay :
             RatReduced(PW_hits(tokens, hay), 10 * Max(1, Len(tokens))))

\* detectCats(text, catMap): the set of the detected categories
PW_detectCats(text, catMap) ==
    Bind(PW_tokenize(text), LAMBDA tokens :
        {catMap[c].cat : c \in {c \in DOMAIN catMap :
            \E k \in DOMAIN catMap[c].kws, i \in DOMAIN tokens :
                \/ includes(tokens[i], catMap[c].kws[k])
                \/ includes(catMap[c].kws[k], tokens[i])}})

PW_AnyOf(txt, words) == \E k \in DOMAIN words : includes(txt, words[k])

\* /hppe|kevlar|aramid|steel mesh|stainless mesh|mesh/i
PW_CutMaterials ==
    <<<<"h","p","p","e">>, <<"k","e","v","l","a","r">>,
  <<"a","r","a","m","i","d">>, <<"s","t","e","e","l"," ","m","e","s","h">>,
  <<"s","t","a","i","n","l","e","s","s"," ","m","e","s","h">>,
  <<"m","e","s","h">>>>

\* /cut|cut-resistant|cut resistant|anti-cut|anti cut|cut level/
PW_CutFeatures ==
    <<<<"c","u","t">>, <<"c","u","t","-","r","e","s","i","s","t","a","n",
            "t">>,
  <<"c","u","t"," ","r","e","s","i","s","t","a","n","t">>,
  <<"a","n","t","i","-","c","u","t">>, <<"a","n","t","i"," ","c","u","t">>,
  <<"c","u","t"," ","l","e","v","e","l">>>>

\* /nitrile|neoprene|butyl|viton|polyvinyl/
PW_OilMaterials ==
    <<<<"n","i","t","r","i","l","e">>, <<"n","e","o","p","r","e","n","e">>,
  <<"b","u","t","y","l">>, <<"v","i","t","o","n">>,
  <<"p","o","l","y","v","i","n","y","l">>>>

\* /fleece|towel|insulated|thermal|wool|fleece lining/
PW_ColdMaterials ==
    <<<<"f","l","e","e","c","e">>, <<"t","o","w","e","l">>,
  <<"i","n","s","u","l","a","t","e","d">>, <<"t","h","e","r","m","a","l">>,
  <<"w","o","o","l">>,
  <<"f","l","e","e","c","e"," ","l","i","n","i","n","g">>>>

\* specialBoost of one product
PW_specialBoost(prod, hazardCats, envCats) ==
    LET mats == toLowerCase(PW_joined(prod.materials))
        feats == toLowerCase(PW_joined(prod.features_en)) \o <<" ">>
                 \o toLowerCase(PW_joined(prod.features_fa))
        b1 == IF "cut" \in hazardCats /\ PW_AnyOf(mats, PW_CutMaterials)
              THEN Rat(12, 100) ELSE Rat(0, 1)
        b2 == IF "cut" \in hazardCats /\ PW_AnyOf(feats, PW_CutFeatures)
              THEN Rat(10, 100) ELSE Rat(0, 1)
        b3 == IF /\ ("chemical" \in hazardCats \/ "oily" \in envCats)
                 /\ PW_AnyOf(mats, PW_OilMaterials)
              THEN Rat(12, 100) ELSE Rat(0, 1)
        b4 == IF "cold" \in envCats /\ PW_AnyOf(mats, PW_ColdMaterials)
              THEN Rat(12, 100) ELSE Rat(0, 1)
    IN  RatAdd(RatAdd(b1, b2), RatAdd(b3, b4))

\* Number(x.toFixed(4))
PW_toFixed4(x) == Rat((20000 * x.n + x.d) \div (2 * x.d), 10000)

\* the score of one product: Math.min(1, Number(finalScore.toFixed(4)))
PW_finalScore(prod, hazard, env, pref, hazardCats, envCats) ==
    LET fScoreHazard == PW_featureMatchScore(prod, PW_tokenize(hazard))
        fScoreEnv == PW_featureMatchScore(prod, PW_tokenize(env))
        fScorePref == PW_featureMatchScore(prod, PW_tokenize(pref))
        sScore == PW_computeStandardsScore(prod, hazardCats)
        finalScore ==
            RatAdd(RatAdd(RatAdd(PW_baseScore,
                                 RatMul(PW_hazardMatch, fScoreHazard)),
                          RatAdd(RatMul(PW_envMatch, fScoreEnv),
                                 RatMul(PW_prefMatch, fScorePref))),
                   RatAdd(RatMul(PW_standardsScore, sScore),
                          PW_specialBoost(prod, hazardCats, envCats)))
    IN  RatMin(Rat(1, 1), PW_toFixed4(finalScore))

\* a.localeCompare(b) < 0 for the ids of the catalogs below (lower-case
\* Latin letters)
PW_localeLess(a, b) == a # b /\ LexLeq(a, b)

\* the comparator of scored.sort: score descending, then the id
PW_sortLess(a, b) ==
    \/ RatLt(b.score, a.score)
    \/ RatEq(a.score, b.score) /\ PW_localeLess(a.id, b.id)

\* scored.sort in ascending order of the id alone
PW_sortLess_IdOnly(a, b) == PW_localeLess(a.id, b.id)

PW_minRelevant == Rat(12, 100)

PW_defaultTopN == 6

PW_fallbackCount == 3

\* scored, before it is sorted
PW_scored(prods, input) ==
    LET hazardCats == PW_detectCats(input.hazard, PW_HAZARD_CATS)
        envCats == PW_detectCats(input.env, PW_ENV_CATS)
    IN  [k \in DOMAIN prods |->
            [id |-> prods[k].id, title_en |-> prods[k].name_en,
             score |-> PW_finalScore(prods[k], input.hazard, input.env,
                                     input.pref, hazardCats, envCats)]]

\* pickProducts(input, opts) on a ready matcher; topN 0 stands for an
\* absent option
PW_pickProducts(prods, input, topN) ==
    LET n == IF topN = 0 THEN PW_defaultTopN ELSE topN
    IN  Bind(PW_scored(prods, input), LAMBDA scored :
            Bind(slice0(StableSort(scored, PW_sortLess), n), LAMBDA top :
                IF \A k \in DOMAIN top : RatLt(top[k].score, PW_minRelevant)
                THEN slice0(top, PW_fallbackCount)
                ELSE top))

----------------------------------------------------------------------------
(* ProductMatcher (weight-based): the inputs and the state machine *)

PW_NoStandards ==
    [has |-> FALSE, cut_level |-> PW_Absent, tdm_newton |-> 0,
     puncture |-> PW_Absent]

PW_En388(cut, tdm, punct) ==
    [has |-> TRUE, cut_level |-> cut, tdm_newton |-> tdm, puncture |-> punct]

PW_Product(id, name_en, name_fa, features_en, features_fa, materials, std) ==
    [id |-> id, name_en |-> name_en, name_fa |-> name_fa,
     features_en |-> features_en, features_fa |-> features_fa,
     materials |-> materials, en388 |-> std]

PW_ProdA ==
    PW_Product(<<"a">>, <<"c","u","t"," ","r","e","s","i","s","t","a","n",
            "t"," ","g","l","o","v","e">>, <<"DL","SN","TE","PK","SH"," ",
                    "ZD","DL"," ","BE","RE","SH">>,
               <<<<"c","u","t"," ","r","e","s","i","s","t","a","n","t">>>>,
                       <<>>, <<<<"h","p","p","e">>>>,
               PW_En388(PW_StrVal(<<"5","+">>), 0, PW_Absent))

PW_ProdB ==
    PW_Product(<<"b">>, <<"l","a","t","e","x"," ","g","l","o","v","e">>,
            <<>>, <<>>, <<>>, <<<<"l","a","t","e","x">>>>,
               PW_NoStandards)

PW_ProdC ==
    PW_Product(<<"c">>, <<"n","i","t","r","i","l","e"," ","g","l","o","v",
            "e">>, <<>>, <<<<"o","i","l"," ","g","r","i","p">>>>, <<>>,
               <<<<"n","i","t","r","i","l","e">>>>, PW_En388(PW_Num(2), 500,
                       PW_Num(3)))

PW_ProdD ==
    PW_Product(<<"d">>, <<"c","o","t","t","o","n"," ","g","l","o","v","e">>,
            <<>>, <<>>, <<>>, <<<<"c","o","t","t","o","n">>>>,
               PW_NoStandards)

\* the arrays init is given, or the body of the products file
PW_Catalogs ==
    {<<>>, <<PW_ProdD, PW_ProdB>>, <<PW_ProdB, PW_ProdA, PW_ProdD, PW_ProdC>>}

PW_Input(hazard, env, pref) == [hazard |-> hazard, env |-> env, pref |-> pref]

PW_Inputs ==
    {PW_Input(<<>>, <<>>, <<>>),
     PW_Input(<<"c","u","t">>, <<>>, <<>>),
     PW_Input(<<"c","u","t">>, <<"o","i","l","y">>, <<>>),
     PW_Input(<<"BE","RE","SH">>, <<>>, <<"g","r","i","p">>),
     PW_Input(<<"n","e","e","d","l","e">>, <<"FE","RE","PY","ZE","RE">>,
             <<>>)}

\* opts.topN: 0 stands for an absent option
PW_TopNs == {0, 2}

PW_NoInput == PW_Input(<<>>, <<>>, <<>>)

PW_CallRec(op, ret, input, topN, result) ==
    [op |-> op, ret |-> ret, input |-> input, topN |-> topN,
     result |-> result]

PW_NoCall == PW_CallRec("none", "", PW_NoInput, 0, <<>>)

PW_Init ==
    /\ products = <<>>
    /\ ready = FALSE
    /\ pwLoad = "idle"
    /\ pwCall = PW_NoCall

\* init(array): products = arr.map(...); ready = true
PW_InitArray ==
    \E arr \in PW_Catalogs :
        /\ products' = arr
        /\ ready' = TRUE
        /\ pwCall' = PW_CallRec("init", "resolved", PW_NoInput, 0, <<>>)
        /\ UNCHANGED pwLoad

\* init(x) with x neither a string nor an array: throws
PW_InitOther ==
    /\ pwCall' = PW_CallRec("init", "rejected", PW_NoInput, 0, <<>>)
    /\ UNCHANGED <<products, ready, pwLoad>>

\* init(url) up to await fetch(url)
PW_InitUrl ==
    /\ pwLoad = "idle"
    /\ pwLoad' = "fetch"
    /\ pwCall' = PW_CallRec("init.start", "pending", PW_NoInput, 0, <<>>)
    /\ UNCHANGED <<products, ready>>

\* fetch rejects, or !res.ok: init rejects
PW_FetchFail ==
    /\ pwLoad = "fetch"
    /\ pwLoad' = "idle"
    /\ pwCall' = PW_CallRec("init", "rejected", PW_NoInput, 0, <<>>)
    /\ UNCHANGED <<products, ready>>

\* res.ok: up to await res.json()
PW_FetchOk ==
    /\ pwLoad = "fetch"
    /\ pwLoad' = "json"
    /\ pwCall' = PW_CallRec("init.fetched", "pending", PW_NoInput, 0, <<>>)
    /\ UNCHANGED <<products, ready>>

\* res.json() rejects, or the body is not an array (arr.map throws)
PW_JsonFail ==
    /\ pwLoad = "json"
    /\ pwLoad' = "idle"
    /\ pwCall' = PW_CallRec("init", "rejected", PW_NoInput, 0, <<>>)
    /\ UNCHANGED <<products, ready>>

\* res.json() resolves with an array
PW_JsonDone ==
    \E arr \in PW_Catalogs :
        /\ pwLoad = "json"
        /\ pwLoad' = "idle"
        /\ products' = arr
        /\ ready' = TRUE
        /\ pwCall' = PW_CallRec("init", "resolved", PW_NoInput, 0, <<>>)

\* pickProducts(input, {topN})
PW_PickProducts ==
    \E input \in PW_Inputs, topN \in PW_TopNs :
        /\ pwCall' = IF ~ready
                     THEN PW_CallRec("pickProducts", "throw", input, topN,
                                     <<>>)
                     ELSE PW_CallRec("pickProducts", "result", input, topN,
                                     PW_pickProducts(products, input, topN))
        /\ UNCHANGED <<products, ready, pwLoad>>

----------------------------------------------------------------------------
(* ProductMatcher (tag-based): the catalog and the scores *)

\* a product of the catalog file: std.raw and std.en388 are "" when absent;
\* _tags and _cutLevel are set by init
PT_Product(id, title_fa, tags, raw, en388) ==
    [id |-> id, title_fa |-> title_fa, tags |-> tags, raw |-> raw,
     en388 |-> en388, _tags |-> <<>>, _cutLevel |-> -1]

PT_defaultCatalog ==
    <<
    PT_Product(<<"9","1","1">>,
        <<"DL","SN","TE","PK","SH"," ","ZD","DL"," ","BE","RE","SH"," ","H",
            "P","P","E"," ","9","1","1">>,
        <<<<"c","u","t">>, <<"h","p","p","e">>, <<"h","i","g","h","_","c",
            "u","t">>, <<"d","e","x","t","e","r","i","t","y">>>>,
        <<"C","U","T"," ","5">>, <<"5"," ","-"," ","C","U","T"," ","5"," ",
            "(","T","D","M"," ","h","i","g","h",")">>),
    PT_Product(<<"9","2","1">>,
        <<"DL","SN","TE","PK","SH"," ","ZD","DL"," ","BE","RE","SH"," ","H",
            "P","P","E"," ","9","2","1">>,
        <<<<"c","u","t">>, <<"h","p","p","e">>, <<"h","i","g","h","_","c",
            "u","t">>>>,
        <<"C","U","T"," ","5">>, <<"5"," ","-"," ","C","U","T"," ","5"," ",
            "(","T","D","M"," ","h","i","g","h",")">>),
    PT_Product(<<"9","2","2">>,
        <<"DL","SN","TE","PK","SH"," ","ZD","DL"," ","BE","RE","SH"," ","H",
            "P","P","E"," ","9","2","2">>,
        <<<<"c","u","t">>, <<"h","p","p","e">>>>,
        <<"C","U","T"," ","5">>, <<"5"," ","-"," ","C","U","T"," ","5">>),
    PT_Product(<<"4","1","2">>,
        <<"DL","SN","TE","PK","SH"," ","LM","AL","TE","PK","SN"," ","4","1",
            "2">>,
        <<<<"l","a","t","e","x">>, <<"g","e","n","e","r","a","l">>, <<"g",
            "r","i","p">>, <<"c","h","e","m","i","c","a","l","_","r","e",
            "s","i","s","t","a","n","c","e","_","l","i","g","h","t">>>>,
        <<"E","N","3","8","8">>, <<"EM">>),
    PT_Product(<<"4","1","8">>,
        <<"DL","SN","TE","PK","SH"," ","LM","AL","TE","PK","SN"," ","4","1",
            "8">>,
        <<<<"l","a","t","e","x">>, <<"g","e","n","e","r","a","l">>, <<"g",
            "r","i","p">>>>,
        <<>>, <<"E","N","3","8","8">>),
    PT_Product(<<"4","2","2">>,
        <<"DL","SN","TE","PK","SH"," ","LM","AL","TE","PK","SN"," ","+","4",
            "2","2">>,
        <<<<"l","a","t","e","x">>, <<"g","e","n","e","r","a","l">>, <<"g",
            "r","i","p">>>>,
        <<>>, <<"E","N","3","8","8">>),
    PT_Product(<<"4","3","2">>,
        <<"DL","SN","TE","PK","SH"," ","LM","AL","TE","PK","SN"," ","4","3",
            "2">>,
        <<<<"l","a","t","e","x">>, <<"w","a","r","m">>, <<"i","n","s","u",
            "l","a","t","e","d">>>>,
        <<>>, <<"E","N","3","8","8">>),
    PT_Product(<<"4","3","4">>,
        <<"DL","SN","TE","PK","SH"," ","LM","AL","TE","PK","SN"," ","+","4",
            "3","4"," ","(","AM","SN","TE","RE"," ","DL","AL","RE",")">>,
        <<<<"l","a","t","e","x">>, <<"w","a","r","m">>, <<"g","r","i","p">>>>,
        <<>>, <<"E","N","3","8","8">>),
    PT_Product(<<"4","4","6">>,
        <<"DL","SN","TE","PK","SH"," ","SH","PY","AL","RE","DL","AL","RE",
            " ","+","4","4","6">>,
        <<<<"l","a","t","e","x">>, <<"g","r","i","p">>, <<"g","e","n","e",
            "r","a","l">>, <<"d","u","r","a","b","l","e">>>>,
        <<"E","N","3","8","8",":"," ","2","1","4","2">>, <<"2","1","4","2">>),
    PT_Product(<<"4","8","5">>,
        <<"DL","SN","TE","PK","SH"," ","FE","WW","MM","PY"," ","+","4","8",
            "5">>,
        <<<<"f","o","a","m">>, <<"l","a","t","e","x">>, <<"g","r","i","p">>,
            <<"g","e","n","e","r","a","l">>>>,
        <<"E","N","3","8","8",":"," ","2","2","4","2">>, <<"2","2","4","2">>),
    PT_Product(<<"3","4","2">>,
        <<"DL","SN","TE","PK","SH"," ","NN","PY","TE","RE","PY","LM"," ",
            "3","4","2">>,
        <<<<"n","i","t","r","i","l","e">>, <<"o","i","l">>, <<"c","h","e",
            "m","i","c","a","l","_","r","e","s","i","s","t","a","n","c",
            "e">>, <<"p","u","n","c","t","u","r","e">>>>,
        <<>>, <<"E","N","3","8","8">>),
    PT_Product(<<"3","4","4">>,
        <<"DL","SN","TE","PK","SH"," ","NN","PY","TE","RE","PY","LM"," ",
            "+","3","4","4">>,
        <<<<"n","i","t","r","i","l","e">>, <<"o","i","l">>, <<"c","h","e",
            "m","i","c","a","l","_","r","e","s","i","s","t","a","n","c",
            "e">>>>,
        <<>>, <<"E","N","3","8","8">>),
    PT_Product(<<"3","4","8">>,
        <<"DL","SN","TE","PK","SH"," ","NN","PY","TE","RE","PY","LM"," ",
            "+","3","4","8">>,
        <<<<"n","i","t","r","i","l","e">>, <<"p","u","n","c","t","u","r",
            "e">>, <<"c","u","t","_","r","e","s","i","s","t","a","n","t">>>>,
        <<>>, <<"E","N","3","8","8">>),
    PT_Product(<<"3","4","6">>,
        <<"DL","SN","TE","PK","SH"," ","NN","PY","TE","RE","PY","LM"," ",
            "3","4","6">>,
        <<<<"n","i","t","r","i","l","e">>, <<"o","i","l">>, <<"r","e","i",
            "n","f","o","r","c","e","d">>, <<"p","u","n","c","t","u","r",
            "e">>>>,
        <<>>, <<"E","N","3","8","8">>),
    PT_Product(<<"3","3","2">>,
        <<"DL","SN","TE","PK","SH"," ","NN","PY","TE","RE","PY","LM"," ",
            "3","3","2">>,
        <<<<"n","i","t","r","i","l","e">>, <<"c","h","e","m","i","c","a",
            "l","_","r","e","s","i","s","t","a","n","c","e">>, <<"o","i",
            "l">>>>,
        <<>>, <<"E","N","3","8","8">>),
    PT_Product(<<"3","1","2">>,
        <<"DL","SN","TE","PK","SH"," ","NN","PY","TE","RE","PY","LM"," ",
            "3","1","2">>,
        <<<<"n","i","t","r","i","l","e">>, <<"o","i","l">>, <<"d","u","r",
            "a","b","l","e">>>>,
        <<>>, <<"E","N","3","8","8">>)
    >>

PT_FoldChar(c) ==
    CASE c = "AY" -> "PY"
      [] c = "AK" -> "PK"
      [] OTHER -> c

\* norm(s)
PT_norm(s) == MapStr(PT_FoldChar, toLowerCase(trim(s)))

\* the first position from i on that holds no white space
RECURSIVE PT_skipWs(_, _)
PT_skipWs(s, i) ==
    IF i <= Len(s) /\ IsSpace(s[i]) THEN PT_skipWs(s, i + 1) ELSE i

PT_digitAt(s, i) ==
    IF i <= Len(s) /\ s[i] \in AsciiDigits
    THEN CHOOSE n \in 0..9 : ToString(n) = s[i]
    ELSE -1

\* the digit captured by /cut\s*[:\-]?\s*([0-9])/ matched at position i,
\* -1 for no match at i
PT_cutColonAt(s, i) ==
    IF i + 2 > Len(s) \/ SubSeq(s, i, i + 2) # <<"c","u","t">> THEN -1
    ELSE LET j == PT_skipWs(s, i + 3)
             k == IF j <= Len(s) /\ s[j] \in {":", "-"}
                  THEN PT_skipWs(s, j + 1) ELSE j
         IN  PT_digitAt(s, k)

\* the digit captured by /cut\s*([0-9])/ matched at position i
PT_cutAt(s, i) ==
    IF i + 2 > Len(s) \/ SubSeq(s, i, i + 2) # <<"c","u","t">> THEN -1
    ELSE PT_digitAt(s, PT_skipWs(s, i + 3))

\* \w
PT_WordChar(c) == c \in LatinLower \cup LatinUpper \cup AsciiDigits \cup {"_"}

\* the digit captured by /\b([0-9])\b/ matched at position i
PT_loneDigitAt(s, i) ==
    IF /\ s[i] \in AsciiDigits
       /\ (i = 1 \/ ~PT_WordChar(s[i - 1]))
       /\ (i = Len(s) \/ ~PT_WordChar(s[i + 1]))
    THEN PT_digitAt(s, i)
    ELSE -1

\* raw.match(rx): the capture of the leftmost match, -1 for null
PT_match(At(_, _), s) ==
    LET hits == {i \in DOMAIN s : At(s, i) >= 0}
    IN  IF hits = {} THEN -1
        ELSE At(s, CHOOSE i \in hits : \A j \in hits : i <= j)

\* extractCutLevel(prod): -1 stands for null
PT_extractCutLevel(prod) ==
    IF <<"h","i","g","h","_","c","u","t">> \in Range(prod.tags) THEN 5
    ELSE LET raw == toLowerCase(IF prod.raw # <<>> THEN prod.raw
                                ELSE prod.en388)
         IN  IF PT_match(PT_cutColonAt, raw) >= 0
             THEN PT_match(PT_cutColonAt, raw)
             ELSE IF PT_match(PT_cutAt, raw) >= 0
                  THEN PT_match(PT_cutAt, raw)
                  ELSE PT_match(PT_loneDigitAt, raw)

\* the loop at the end of init
PT_prepare(cat) ==
    [k \in DOMAIN cat |->
        [cat[k] EXCEPT !._tags = [t \in DOMAIN cat[k].tags |->
                                     PT_norm(cat[k].tags[t])],
                       !._cutLevel = PT_extractCutLevel(cat[k])]]

PT_has(prod, tag) == tag \in Range(prod._tags)

\* 1) hazard match, in hundredths
PT_hazardPoints(prod, qHaz) ==
    IF qHaz = <<>> THEN 0
    ELSE IF PT_has(prod, qHaz) THEN 100
    ELSE IF \E t \in DOMAIN prod._tags :
                includes(prod._tags[t], qHaz) \/ includes(qHaz, prod._tags[t])
         THEN 60
    ELSE 0

\* 2) environment match, in hundredths
PT_envPoints(prod, qEnv) ==
    IF qEnv = <<>> THEN 0
    ELSE IF \/ qEnv = <<"o","i","l","y">>
            \/ includes(qEnv, <<"o","i","l">>)
            \/ includes(qEnv, <<"RE","WW","GH","NN">>)
         THEN (IF \/ PT_has(prod, <<"o","i","l">>)
                  \/ PT_has(prod, <<"n","i","t","r","i","l","e">>)
                  \/ PT_has(prod, <<"f","o","a","m">>)
               THEN 60 ELSE 0)
    ELSE IF qEnv = <<"w","e","t">> \/ includes(qEnv, <<"MM","RE","TA","WW",
            "BE">>)
         THEN (IF \/ PT_has(prod, <<"f","o","a","m">>)
                  \/ PT_has(prod, <<"l","a","t","e","x">>)
                  \/ PT_has(prod, <<"n","i","t","r","i","l","e">>)
               THEN 45 ELSE 0)
    ELSE IF qEnv = <<"c","o","l","d">>
         THEN (IF PT_has(prod, <<"i","n","s","u","l","a","t","e",
             "d">>) \/ PT_has(prod, <<"w","a","r","m">>)
               THEN 50 ELSE 0)
    ELSE IF PT_has(prod, qEnv) THEN 40
    ELSE 0

\* 3) preference match, in hundredths
PT_prefPoints(prod, qPref) ==
    IF qPref = <<>> THEN 0
    ELSE (IF includes(qPref, <<"g","r","i","p">>) /\ PT_has(prod, <<"g","r",
            "i","p">>)
          THEN 50 ELSE 0)
       + (IF /\ includes(qPref, <<"c","o","m","f","o","r","t">>)
             /\ \/ PT_has(prod, <<"f","o","a","m">>)
                \/ PT_has(prod, <<"d","e","x","t","e","r","i","t","y">>)
                \/ PT_has(prod, <<"w","a","r","m">>)
          THEN 45 ELSE 0)
       + (IF /\ includes(qPref, <<"d","u","r","a","b">>)
             /\ PT_has(prod, <<"d","u","r","a","b","l",
                    "e">>) \/ PT_has(prod, <<"r","e","i","n","f","o","r",
                    "c","e","d">>)
          THEN 45 ELSE 0)
       + (IF /\ includes(qPref, <<"c","u","t">>)
             /\ PT_has(prod, <<"c","u","t">>) \/ PT_has(prod, <<"h","i","g",
                    "h","_","c","u","t">>)
          THEN 90 ELSE 0)
       + (IF /\ includes(qPref, <<"c","h","e","m","i","c","a","l">>)
             /\ PT_has(prod, <<"c","h","e","m","i","c","a","l","_","r","e",
                    "s","i","s","t","a","n","c","e">>)
          THEN 80 ELSE 0)
       + (IF includes(qPref, <<"d","e","x","t","e","r">>) /\ PT_has(prod,
             <<"d","e","x","t","e","r","i","t","y">>)
          THEN 60 ELSE 0)

\* 4) industry hint, in hundredths
PT_industryPoints(prod, qIndustry) ==
    IF qIndustry = <<>> THEN 0
    ELSE (IF /\ includes(qIndustry, <<"c","h","e","m","i","c","a","l">>)
             /\ \/ PT_has(prod, <<"n","i","t","r","i","l","e">>)
                \/ PT_has(prod, <<"c","h","e","m","i","c","a","l","_","r",
                       "e","s","i","s","t","a","n","c","e">>)
          THEN 35 ELSE 0)
       + (IF /\ includes(qIndustry, <<"w","e","l","d","i","n","g">>)
             /\ PT_has(prod, <<"h","p","p","e">>)
             /\ PT_has(prod, <<"c","u","t">>)
          THEN 20 ELSE 0)
       + (IF includes(qIndustry, <<"g","l","a","s","s">>) /\ PT_has(prod,
             <<"c","u","t">>)
          THEN 25 ELSE 0)
       + (IF includes(qIndustry, <<"w","a","r","e","h","o","u","s",
             "e">>) /\ PT_has(prod, <<"d","e","x","t","e","r","i","t","y">>)
          THEN 20 ELSE 0)

\* 5) cut-level bonus, in hundredths: Math.min(1, _cutLevel * 0.12); a
\* _cutLevel of null or 0 is falsy
PT_cutLevelPoints(prod, qHaz, qPref) ==
    IF /\ includes(qHaz, <<"c","u","t">>) \/ includes(qPref, <<"c","u","t">>)
       /\ prod._cutLevel > 0
    THEN (IF 12 * prod._cutLevel > 100 THEN 100 ELSE 12 * prod._cutLevel)
    ELSE 0

\* 6) the baseline, in hundredths
PT_baseline == 5

\* scoreProduct(prod, query).score: the sum is capped at 1, toFixed(3)
PT_scoreProduct(prod, query) ==
    LET qHaz == PT_norm(query.hazard)
        qEnv == PT_norm(query.env)
        qPref == PT_norm(query.pref)
        qIndustry == PT_norm(query.industry)
        score == PT_hazardPoints(prod, qHaz) + PT_envPoints(prod, qEnv)
                 + PT_prefPoints(prod, qPref)
                 + PT_industryPoints(prod, qIndustry)
                 + PT_cutLevelPoints(prod, qHaz, qPref) + PT_baseline
    IN  toFixed3(RatMin(Rat(1, 1), Rat(score, 100)))

\* a > b for two strings: the order of the UTF-16 code units
PT_strGreater(a, b) == a # b /\ LexLeq(b, a)

\* the comparator of scored.sort, for products with different titles:
\* matchScore descending, then title_fa descending
PT_sortLess(a, b) ==
    \/ RatLt(b.matchScore, a.matchScore)
    \/ RatEq(a.matchScore, b.matchScore) /\ PT_strGreater(a.title_fa,
            b.title_fa)

PT_defaultTopN == 6

\* pickProducts(query, opts); topN 0 stands for an absent option
PT_pickProducts(cat, query, topN) ==
    Bind([k \in DOMAIN cat |->
             [id |-> cat[k].id, title_fa |-> cat[k].title_fa,
              tags |-> cat[k].tags,
              matchScore |-> PT_scoreProduct(cat[k], query)]],
         LAMBDA scored :
            slice0(SelectSeq(StableSort(scored, PT_sortLess),
                             LAMBDA x : RatLt(Rat(0, 1), x.matchScore)),
                   IF topN = 0 THEN PT_defaultTopN ELSE topN))

----------------------------------------------------------------------------
(* ProductMatcher (tag-based): the inputs and the state machine *)

\* two products that both reach the cap for {hazard: 'cut', env: 'oily'}
PT_ProdP ==
    PT_Product(<<"p">>, <<"c","u","t"," ","n","i","t","r","i","l","e">>,
            <<<<"c","u","t">>, <<"N","i","t","r","i","l","e">>>>, <<>>, <<>>)

PT_ProdQ ==
    PT_Product(<<"q">>, <<"c","u","t"," ","o","n","l","y">>, <<<<"c","u",
            "t">>>>, <<"C","U","T",":"," ","5">>, <<>>)

PT_ProdR ==
    PT_Product(<<"r">>, <<"l","a","t","e","x">>, <<<<"l","a","t","e",
            "x">>>>, <<>>, <<"3"," ","-"," ","c","u","t">>)

\* the bodies of the remote catalog file: data.products, or no array
PT_Bodies ==
    {[isArr |-> TRUE, products |-> <<PT_ProdP, PT_ProdQ, PT_ProdR>>],
     [isArr |-> TRUE, products |-> <<PT_ProdR>>],
     [isArr |-> FALSE, products |-> <<>>]}

PT_Query(hazard, env, pref, industry) ==
    [hazard |-> hazard, env |-> env, pref |-> pref, industry |-> industry]

PT_NoQuery == PT_Query(<<>>, <<>>, <<>>, <<>>)

PT_Queries ==
    {PT_NoQuery,
     PT_Query(<<"c","u","t">>, <<"o","i","l","y">>, <<>>, <<>>),
     PT_Query(<<"C","u","t"," ">>, <<"w","e","t">>, <<"g","r","i","p">>,
            <<>>),
     PT_Query(<<>>, <<"c","o","l","d">>, <<"c","o","m","f","o","r","t"," ",
            "c","u","t">>, <<"g","l","a","s","s">>),
     PT_Query(<<"o","i","l">>, <<"l","a","t","e","x">>, <<>>, <<"c","h","e",
            "m","i","c","a","l">>)}

\* opts.topN: 0 stands for an absent option
PT_TopNs == {0, 2}

PT_CallRec(op, query, topN, result) ==
    [op |-> op, query |-> query, topN |-> topN, result |-> result]

PT_NoCall == PT_CallRec("none", PT_NoQuery, 0, <<>>)

PT_Init ==
    /\ catalog = <<>>
    /\ ptLoad = "idle"
    /\ ptCall = PT_NoCall

\* init() without a path: the default catalog, prepared
PT_InitDefault ==
    /\ catalog' = PT_prepare(PT_defaultCatalog)
    /\ ptCall' = PT_CallRec("init", PT_NoQuery, 0, <<>>)
    /\ UNCHANGED ptLoad

\* init(path) up to await fetch(path)
PT_InitRemote ==
    /\ ptLoad = "idle"
    /\ ptLoad' = "fetch"
    /\ ptCall' = PT_CallRec("init.start", PT_NoQuery, 0, <<>>)
    /\ UNCHANGED catalog

\* fetch rejects (the catch block), or !r.ok: the default catalog
PT_FetchFail ==
    /\ ptLoad = "fetch"
    /\ ptLoad' = "idle"
    /\ catalog' = PT_prepare(PT_defaultCatalog)
    /\ ptCall' = PT_CallRec("init", PT_NoQuery, 0, <<>>)

\* r.ok: up to await r.json()
PT_FetchOk ==
    /\ ptLoad = "fetch"
    /\ ptLoad' = "json"
    /\ ptCall' = PT_CallRec("init.fetched", PT_NoQuery, 0, <<>>)
    /\ UNCHANGED catalog

\* r.json() rejects (the catch block): the default catalog
PT_JsonFail ==
    /\ ptLoad = "json"
    /\ ptLoad' = "idle"
    /\ catalog' = PT_prepare(PT_defaultCatalog)
    /\ ptCall' = PT_CallRec("init", PT_NoQuery, 0, <<>>)

\* r.json() resolves: data.products if it is an array, else the default
PT_JsonDone ==
    \E body \in PT_Bodies :
        /\ ptLoad = "json"
        /\ ptLoad' = "idle"
        /\ catalog' = PT_prepare(IF body.isArr THEN body.products
                                 ELSE PT_defaultCatalog)
        /\ ptCall' = PT_CallRec("init", PT_NoQuery, 0, <<>>)

\* s in reverse order
Reverse(s) == [i \in DOMAIN s |-> s[Len(s) + 1 - i]]

\* pickProducts with a sort that looks at the score alone
PT_pickByScore(cat, query, topN) ==
    Bind([k \in DOMAIN cat |->
             [id |-> cat[k].id, title_fa |-> cat[k].title_fa,
              tags |-> cat[k].tags,
              matchScore |-> PT_scoreProduct(cat[k], query)]],
         LAMBDA scored :
            slice0(SelectSeq(StableSort(scored, LAMBDA a, b :
                                 RatLt(b.matchScore, a.matchScore)),
                             LAMBDA x : RatLt(Rat(0, 1), x.matchScore)),
                   IF topN = 0 THEN PT_defaultTopN ELSE topN))

\* pickProducts that leaves products of equal score in an order that varies
\* from call to call
PT_PickProducts_TiesUnordered ==
    \E query \in PT_Queries, topN \in PT_TopNs :
        \E cat \in {catalog, Reverse(catalog)} :
            /\ ptCall' = PT_CallRec("pickProducts", query, topN,
                                    PT_pickByScore(cat, query, topN))
            /\ UNCHANGED <<catalog, ptLoad>>

\* pickProducts(query, {topN})
PT_PickProducts ==
    \E query \in PT_Queries, topN \in PT_TopNs :
        /\ ptCall' = PT_CallRec("pickProducts", query, topN,
                                PT_pickProducts(catalog, query, topN))
        /\ UNCHANGED <<catalog, ptLoad>>

----------------------------------------------------------------------------
(* IntentMatcher: the scores *)

\* tokenSet(s)
IM_tokenSet(s) == splitFilter(IM_normalizeFa(s))

\* what one keyword adds to the score of a list, in tenths
IM_keywordTenths(textTokens, k) ==
    LET nk == IM_normalizeFa(k)
    IN  IF nk = <<>> THEN 0
        ELSE IF Len(splitFilter(nk)) > 1
             THEN (IF includes(join(textTokens), nk) THEN 10 ELSE 0)
        ELSE IF nk \in Range(textTokens) THEN 10
        ELSE IF Len(nk) >= 3 /\ \E i \in DOMAIN textTokens :
                                   includes(textTokens[i], nk)
             THEN 6
        ELSE 0

\* scoreForTextAgainstList(textTokens, list), in tenths
RECURSIVE IM_listTenths(_, _)
IM_listTenths(textTokens, list) ==
    IF list = <<>> THEN 0
    ELSE IM_keywordTenths(textTokens, Head(list))
         + IM_listTenths(textTokens, Tail(list))

IM_scoreForTextAgainstList(textTokens, list) ==
    RatReduced(IM_listTenths(textTokens, list), 10)

\* the score of one intent: keywords, and 0.8 times the examples
IM_intentScore(tokens, intentObj) ==
    RatAdd(IM_scoreForTextAgainstList(tokens, intentObj.keywords),
           RatMul(IM_scoreForTextAgainstList(tokens, intentObj.examples),
                  Rat(8, 10)))

\* industryScores, hazardScores: the entries with a score above 0, in the
\* order of the keys
IM_positiveScores(tokens, entries) ==
    SelectSeq([k \in DOMAIN entries |->
                  [code |-> entries[k].code,
                   score |-> IM_scoreForTextAgainstList(tokens,
                                 entries[k].aliases)]],
              LAMBDA e : RatLt(Rat(0, 1), e.score))

\* computeIntentScores(text)
IM_computeIntentScores(d, text) ==
    Bind(IM_tokenSet(IM_normalizeFa(text)), LAMBDA tokens :
        [intentScores |-> [k \in DOMAIN d.intents |->
                              [name |-> d.intents[k].name,
                               score |-> IM_intentScore(tokens,
                                                        d.intents[k])]],
         industryScores |-> IM_positiveScores(tokens, d.industries),
         hazardScores |-> IM_positiveScores(tokens, d.hazards),
         tokens |-> tokens])

\* bestIntent(matchObj): the first intent with the greatest score above 0
RECURSIVE IM_bestFrom(_, _)
IM_bestFrom(scores, best) ==
    IF scores = <<>> THEN best
    ELSE IM_bestFrom(Tail(scores),
                     IF RatLt(best.score, Head(scores).score)
                     THEN Head(scores) ELSE best)

IM_bestIntent(m) ==
    IM_bestFrom(m.intentScores, [name |-> "unknown", score |-> Rat(0, 1)])

\* the first intent with the greatest score, also when that score is 0
IM_bestIntent_FromFirst(m) ==
    IF m.intentScores = <<>> THEN [name |-> "unknown", score |-> Rat(0, 1)]
    ELSE IM_bestFrom(Tail(m.intentScores), Head(m.intentScores))

IM_maxPossible == 6

IM_defaultMin == Rat(28, 100)

IM_defaultHigh == Rat(65, 100)

\* entries.sort((a, b) => b[1] - a[1]).slice(0, 3)
IM_top3(scores) ==
    slice0(StableSort(scores, LAMBDA a, b : RatLt(b.score, a.score)), 3)

\* matchIntent(text) on a loaded dictionary; a setting of 0 is absent
IM_matchIntent(d, text) ==
    Bind(IM_computeIntentScores(d, text), LAMBDA m :
        LET best == IM_bestIntent(m)
            normalized == RatMin(Rat(1, 1),
                                 RatMul(best.score, Rat(1, IM_maxPossible)))
            min == IF d.settings.min_intent_score.n # 0
                   THEN d.settings.min_intent_score ELSE IM_defaultMin
            high == IF d.settings.high_confidence.n # 0
                    THEN d.settings.high_confidence ELSE IM_defaultHigh
        IN  [intent |-> best.name,
             raw_score |-> best.score,
             score |-> normalized,
             confident |-> RatLeq(high, normalized),
             needsClarify |-> RatLt(normalized, min),
             industries |-> IM_top3(m.industryScores),
             hazards |-> IM_top3(m.hazardScores),
             tokens |-> m.tokens])

----------------------------------------------------------------------------
(* IntentMatcher: the inputs and the state machine *)

IM_IntentObj(name, keywords, examples) ==
    [name |-> name, keywords |-> keywords, examples |-> examples]

IM_Aliases(code, aliases) == [code |-> code, aliases |-> aliases]

IM_Dict(intents, industries, hazards, min, high) ==
    [isNull |-> FALSE, intents |-> intents, industries |-> industries,
     hazards |-> hazards,
     settings |-> [min_intent_score |-> min, high_confidence |-> high]]

\* dict before init, and a file that holds null
IM_Null == [IM_Dict(<<>>, <<>>, <<>>, Rat(0, 1), Rat(0, 1)) EXCEPT
               !.isNull = TRUE]

IM_DictA ==
    IM_Dict(<<IM_IntentObj("greeting", <<<<"h","i">>, <<"H","e","l","l","o",
            " ","t","h","e","r","e","!">>>>,
                           <<<<"h","i"," ","t","h","e","r","e">>>>),
              IM_IntentObj("price", <<<<"p","r","i","c","e">>, <<"c","o",
                  "s","t">>>>, <<>>)>>,
            <<IM_Aliases("welding", <<<<"w","e","l","d">>>>),
              IM_Aliases("metal", <<<<"c","u","t">>, <<"w","e","l","d">>>>)>>,
            <<IM_Aliases("cut", <<<<"c","u","t">>, <<"b","l","a","d",
                "e">>>>)>>,
            Rat(0, 1), Rat(0, 1))

IM_DictB ==
    IM_Dict(<<IM_IntentObj("a", <<<<"c","u","t">>>>, <<>>),
              IM_IntentObj("b", <<<<"c","u","t">>>>, <<<<"c","u","t">>>>)>>,
            <<IM_Aliases("x", <<<<"c","u","t">>>>), IM_Aliases("y", <<<<"c",
                "u","t">>>>),
              IM_Aliases("z", <<<<"c","u","t">>, <<"w","e","l">>>>)>>,
            <<>>,
            Rat(1, 10), Rat(15, 100))

\* the intents of IM_DictA with both thresholds set, the high one below the
\* low one
IM_DictC ==
    [IM_DictA EXCEPT !.settings = [min_intent_score |-> Rat(1, 2),
                                   high_confidence |-> Rat(1, 4)]]

\* a settings block that holds min_intent_score only
IM_DictD ==
    IM_Dict(<<IM_IntentObj("order",
                           <<<<"c","u","t">>, <<"w","e","l","d","i","n","g">>,
                             <<"w","e","l","d","i","n","g"," ","c","u","t">>,
                             <<"w","e","l","d">>>>,
                           <<<<"w","e","l","d","i","n","g"," ","c","u","t">>,
                             <<"c","u","t">>>>)>>,
            <<>>, <<>>,
            Rat(9, 10), Rat(0, 1))

\* the bodies of the keywords file
IM_Payloads == {IM_Null, IM_DictA, IM_DictB, IM_DictC, IM_DictD}

IM_Texts == {<<>>, <<"h","i"," ","t","h","e","r","e">>, <<"w","e","l","d",
            "i","n","g"," ","c","u","t">>, <<"p","r","i","c","e">>,
            <<"c","u","t">>, <<"b","l","a","d","e","s">>}

IM_NoResult ==
    [intent |-> "", raw_score |-> Rat(0, 1), score |-> Rat(0, 1),
     confident |-> FALSE, needsClarify |-> FALSE, industries |-> <<>>,
     hazards |-> <<>>, tokens |-> <<>>]

IM_CallRec(op, ret, text, result) ==
    [op |-> op, ret |-> ret, text |-> text, result |-> result]

IM_NoCall == IM_CallRec("none", "", <<>>, IM_NoResult)

IM_Init ==
    /\ imDict = IM_Null
    /\ imLoad = "idle"
    /\ imCall = IM_NoCall

\* init(jsonPath) up to await loadJSON(jsonPath), which awaits the fetch
IM_InitStart ==
    /\ imLoad = "idle"
    /\ imLoad' = "fetch"
    /\ imCall' = IM_CallRec("init.start", "pending", <<>>, IM_NoResult)
    /\ UNCHANGED imDict

\* fetch rejects, or !r.ok: init rejects
IM_FetchFail ==
    /\ imLoad = "fetch"
    /\ imLoad' = "idle"
    /\ imCall' = IM_CallRec("init", "rejected", <<>>, IM_NoResult)
    /\ UNCHANGED imDict

\* r.ok: r.json() is awaited
IM_FetchOk ==
    /\ imLoad = "fetch"
    /\ imLoad' = "json"
    /\ imCall' = IM_CallRec("init.fetched", "pending", <<>>, IM_NoResult)
    /\ UNCHANGED imDict

\* r.json() rejects: init rejects
IM_JsonFail ==
    /\ imLoad = "json"
    /\ imLoad' = "idle"
    /\ imCall' = IM_CallRec("init", "rejected", <<>>, IM_NoResult)
    /\ UNCHANGED imDict

\* r.json() resolves: dict = the body
IM_JsonDone ==
    \E body \in IM_Payloads :
        /\ imLoad = "json"
        /\ imLoad' = "idle"
        /\ imDict' = body
        /\ imCall' = IM_CallRec("init", "resolved", <<>>, IM_NoResult)

\* matchIntent(text)
IM_MatchIntent ==
    \E text \in IM_Texts :
        /\ imCall' = IF imDict.isNull
                     THEN IM_CallRec("matchIntent", "throw", text,
                                     IM_NoResult)
                     ELSE IM_CallRec("matchIntent", "result", text,
                                     IM_matchIntent(imDict, text))
        /\ UNCHANGED <<imDict, imLoad>>

----------------------------------------------------------------------------
(* The normalizers applied to bounded inputs *)

MaxNormLen == 3

NormChars == {"a", "A", " ", "!", "-", "AY", "HY", "P0", "P1", "P9", "ZW"}

RECURSIVE StringsUpTo(_, _)
StringsUpTo(chars, n) ==
    IF n = 0 THEN {<<>>}
    ELSE LET shorter == StringsUpTo(chars, n - 1)
         IN  shorter \cup {Append(s, c) : s \in shorter, c \in chars}

NormInputs == StringsUpTo(NormChars, MaxNormLen)

NormInit ==
    /\ nIn \in NormInputs
    /\ nFn = "none"
    /\ nOut = <<>>
    /\ nOut2 = <<>>

ApplyNormalizeFa ==
    /\ nFn' = "normalizeFa"
    /\ nOut' = IM_normalizeFa(nIn)
    /\ nOut2' = IM_normalizeFa(IM_normalizeFa(nIn))
    /\ UNCHANGED nIn

ApplyNormalize ==
    /\ nFn' = "normalize"
    /\ nOut' = DI_normalize(nIn)
    /\ nOut2' = DI_normalize(DI_normalize(nIn))
    /\ UNCHANGED nIn

ApplyV3NormalizeText ==
    /\ nFn' = "v3.normalizeText"
    /\ nOut' = V3_normalizeText(nIn)
    /\ nOut2' = V3_normalizeText(V3_normalizeText(nIn))
    /\ UNCHANGED nIn

ApplyKENormalizeText ==
    /\ nFn' = "ke.normalizeText"
    /\ nOut' = KE_normalizeText(nIn)
    /\ nOut2' = KE_normalizeText(KE_normalizeText(nIn))
    /\ UNCHANGED nIn

----------------------------------------------------------------------------
(* The scores of one entity for a query and for the query with one more    *)
(* token: industryScoreForText and scoreCandidate as pure functions        *)

\* an entity: an industry with its aliases for the IndustryIndexer, an
\* entry with its title and keywords for the KnowledgeEngine
Mono_Entity(id, title, keywords) ==
    [id |-> id, title |-> title, keywords |-> keywords]

Mono_Entities ==
    { Mono_Entity("g", Str_glove, <<Str_cut_glove>>),
      Mono_Entity("w", Str_arc_welding, <<Str_weld, Str_arc_welding>>),
      Mono_Entity("c", Str_cut_glove, <<Str_glove, Str_cut>>),
      Mono_Entity("j", Str_jushkari, <<Str_jushkari, Str_cut>>) }

Mono_Queries ==
    {<<>>, Str_glove, Str_cut, Str_weld, Str_price, Str_weld_cut,
     Str_jushkari}

\* the tokens that match e: the tokens of its title and of its keywords
Mono_MatchTokens(e) ==
    Range(KE_tokenize(e.title))
        \cup UNION {Range(KE_tokenize(e.keywords[k])) : k \in DOMAIN e.keywords}

Mono_NoInput == [q |-> <<>>, t |-> <<>>, e |-> Mono_Entity("", <<>>, <<>>)]

Mono_NoOutput == [before |-> Rat(0, 1), after |-> Rat(0, 1)]

\* the query q with the token t added
Mono_WithToken(q, t) == IF q = <<>> THEN t ELSE q \o <<" ">> \o t

Mono_Init ==
    /\ monoIn \in UNION {{[q |-> q, t |-> t, e |-> e] :
                               q \in Mono_Queries, t \in Mono_MatchTokens(e)} :
                           e \in Mono_Entities}
    /\ monoFn = "none"
    /\ monoOut = Mono_NoOutput

Mono_Idle ==
    /\ monoIn = Mono_NoInput
    /\ monoFn = "none"
    /\ monoOut = Mono_NoOutput

\* the score of the industry e in industryScoreForText(text)
Mono_industryScore(e, text) ==
    LET d == DI_Data("object", <<DI_Entry(e.id, "list", e.keywords)>>)
    IN  DI_industryScoreForText(DI_buildIndex(d).index, text)[1].score

\* the score of the entry e in scoreCandidate(text, e)
Mono_candidateScore(e, text) ==
    KE_scoreCandidate(text,
        KE_normalizeEntry(KE_Item("", e.id, "", e.title, <<>>, <<>>,
                                  "array", e.keywords), 0))

ApplyIndustryScoreForText ==
    /\ monoFn' = "industryScoreForText"
    /\ monoOut' = [before |-> Mono_industryScore(monoIn.e, monoIn.q),
                   after |-> Mono_industryScore(monoIn.e,
                                 Mono_WithToken(monoIn.q, monoIn.t))]
    /\ UNCHANGED monoIn

ApplyScoreCandidate ==
    /\ monoFn' = "scoreCandidate"
    /\ monoOut' = [before |-> Mono_candidateScore(monoIn.e, monoIn.q),
                   after |-> Mono_candidateScore(monoIn.e,
                                 Mono_WithToken(monoIn.q, monoIn.t))]
    /\ UNCHANGED monoIn

\* keywordHitScore(text, e) for the entry e as init holds it
Mono_keywordHitScore(e, text) ==
    KE_keywordHitScore(text,
        KE_normalizeEntry(KE_Item("", e.id, "", e.title, <<>>, <<>>,
                                  "array", e.keywords), 0))

ApplyKeywordHitScore ==
    /\ monoFn' = "keywordHitScore"
    /\ monoOut' = [before |-> Mono_keywordHitScore(monoIn.e, monoIn.q),
                   after |-> Mono_keywordHitScore(monoIn.e,
                                 Mono_WithToken(monoIn.q, monoIn.t))]
    /\ UNCHANGED monoIn

----------------------------------------------------------------------------
(* The six matchers, each called again and again on its own engine *)

Det_Engines == {"V3", "KE", "DI", "PW", "PT", "IM"}

\* the record of the engine's segment that ran last
Det_Call(e) ==
    CASE e = "V3" -> v3Call
      [] e = "KE" -> keQuery
      [] e = "DI" -> diCall
      [] e = "PW" -> pwCall
      [] e = "PT" -> ptCall
      [] e = "IM" -> imCall

\* the segment was a call of the engine's matcher
Det_IsMatch(e, call) ==
    CASE e = "V3" -> call.op = "bestMatch"
      [] e = "KE" -> call.n = 1
      [] e = "DI" -> call.op = "bestMatch"
      [] e = "PW" -> call.op = "pickProducts"
      [] e = "PT" -> call.op = "pickProducts"
      [] e = "IM" -> call.op = "matchIntent"

\* the arguments of the call
Det_Args(e, call) ==
    CASE e = "V3" -> <<call.text, call.thr>>
      [] e = "KE" -> <<call.text, call.topN>>
      [] e = "DI" -> <<call.text, call.topN>>
      [] e = "PW" -> <<call.input, call.topN>>
      [] e = "PT" -> <<call.query, call.topN>>
      [] e = "IM" -> <<call.text>>

\* what the call returned, or that it threw
Det_Result(e, call) ==
    CASE e = "V3" -> <<call.ret, call.result>>
      [] e = "KE" -> <<call.result>>
      [] e = "DI" -> <<call.ret, call.result>>
      [] e = "PW" -> <<call.ret, call.result>>
      [] e = "PT" -> <<call.result>>
      [] e = "IM" -> <<call.ret, call.result>>

Det_NoPrev == [same |-> FALSE, result |-> <<>>]

\* KnowledgeEngine after an init that resolved with {ok: true}
Det_KELoaded ==
    \E body \in KE_Bodies, intents \in KE_IntentLists :
        LET r == KE_parseBody(body)
        IN  /\ ~r.threw
            /\ r.kb # <<>>
            /\ kb = r.kb
            /\ indexInitialized = TRUE
            /\ intentKeywords = intents
            /\ kbPath = KE_DefaultPath
            /\ keTasks = [t \in 1..MaxKETasks |-> KE_FreeTask]
            /\ keCall = [op |-> "init", task |-> 1, ok |-> TRUE,
                         count |-> Len(r.kb), why |-> ""]
            /\ keLastGood = r.kb
            /\ keQuery = KE_NoQuery

\* IndustryIndexer (dictionary-based) after a first init that resolved
Det_DILoaded ==
    \E data \in DI_Payloads :
        LET r == DI_buildIndex(data)
        IN  /\ ~r.threw
            /\ dict = data
            /\ industryIndex = r.index
            /\ diLoad = [pc |-> "idle", n |-> 1]
            /\ diCall = DI_CallRec("init", "resolved", data, DI_Null, <<>>)

\* IntentMatcher after an init that resolved with a dictionary
Det_IMLoaded ==
    \E body \in IM_Payloads :
        /\ ~body.isNull
        /\ imDict = body
        /\ imLoad = "idle"
        /\ imCall = IM_CallRec("init", "resolved", <<>>, IM_NoResult)

Det_Idle ==
    /\ detEngine = "none"
    /\ detPrev = Det_NoPrev

\* a call of the matcher of e: detPrev holds what the call before it
\* returned when that was the segment that ran last on e and had the same
\* arguments
Det_Called(e) ==
    /\ detEngine = e
    /\ detPrev' = IF /\ Det_IsMatch(e, Det_Call(e))
                     /\ Det_Args(e, Det_Call(e)) = Det_Args(e, Det_Call(e)')
                  THEN [same |-> TRUE, result |-> Det_Result(e, Det_Call(e))]
                  ELSE Det_NoPrev
    /\ UNCHANGED detEngine

\* a load or an add on e
Det_Loaded(e) ==
    /\ detEngine = e
    /\ detPrev' = Det_NoPrev
    /\ UNCHANGED detEngine

\* a segment of e that is neither
Det_Other(e) ==
    /\ detEngine = e
    /\ UNCHANGED <<detEngine, detPrev>>

Det_V3AddIndustry ==
    /\ V3_AddIndustry
    /\ Det_Loaded("V3")
    /\ UNCHANGED <<normVars, keVars, diVars, monoVars, pwVars, ptVars,
                   imVars>>

Det_V3BestMatch ==
    /\ V3_BestMatch
    /\ Det_Called("V3")
    /\ UNCHANGED <<normVars, keVars, diVars, monoVars, pwVars, ptVars,
                   imVars>>

Det_KEQuery ==
    /\ KE_Query
    /\ Det_Called("KE")
    /\ UNCHANGED <<normVars, v3Vars, diVars, monoVars, pwVars, ptVars,
                   imVars>>

\* the intent file that query asks for without waiting
Det_KEIntents ==
    /\ KE_IntentFetchFail \/ KE_IntentFetchOk \/ KE_IntentJsonDone
    /\ Det_Other("KE")
    /\ UNCHANGED <<normVars, v3Vars, diVars, monoVars, pwVars, ptVars,
                   imVars>>

Det_DIBestMatch ==
    /\ DI_BestMatch
    /\ Det_Called("DI")
    /\ UNCHANGED <<normVars, v3Vars, keVars, monoVars, pwVars, ptVars,
                   imVars>>

Det_PWInitArray ==
    /\ PW_InitArray
    /\ Det_Loaded("PW")
    /\ UNCHANGED <<normVars, v3Vars, keVars, diVars, monoVars, ptVars,
                   imVars>>

Det_PWPickProducts ==
    /\ PW_PickProducts
    /\ Det_Called("PW")
    /\ UNCHANGED <<normVars, v3Vars, keVars, diVars, monoVars, ptVars,
                   imVars>>

Det_PTInitDefault ==
    /\ PT_InitDefault
    /\ Det_Loaded("PT")
    /\ UNCHANGED <<normVars, v3Vars, keVars, diVars, monoVars, pwVars,
                   imVars>>

Det_PTPickProducts ==
    /\ PT_PickProducts
    /\ Det_Called("PT")
    /\ UNCHANGED <<normVars, v3Vars, keVars, diVars, monoVars, pwVars,
                   imVars>>

Det_IMMatchIntent ==
    /\ IM_MatchIntent
    /\ Det_Called("IM")
    /\ UNCHANGED <<normVars, v3Vars, keVars, diVars, monoVars, pwVars,
                   ptVars>>

----------------------------------------------------------------------------
(* Specifications *)

vars ==
    <<normVars, v3Vars, keVars, diVars, monoVars, pwVars, ptVars, imVars, detVars>>

NormIdle ==
    /\ nIn = <<>>
    /\ nFn = "none"
    /\ nOut = <<>>
    /\ nOut2 = <<>>

V3_Idle ==
    /\ INDUSTRIES = <<>>
    /\ keywordIndex = <<>>
    /\ v3Load = "idle"
    /\ v3Call = "none"

KE_Idle ==
    /\ kb = <<>>
    /\ indexInitialized = FALSE
    /\ intentKeywords = <<>>
    /\ kbPath = ""
    /\ keTasks = <<>>
    /\ keCall = KE_NoCall
    /\ keLastGood = <<>>
    /\ keQuery = KE_NoQuery

DI_Idle ==
    /\ dict = DI_Null
    /\ industryIndex = <<>>
    /\ diLoad = [pc |-> "idle", n |-> 0]
    /\ diCall = DI_CallRec("load", "", DI_Null, DI_Null, <<>>)

PW_Idle == PW_Init

PT_Idle == PT_Init

IM_Idle == IM_Init

\* one engine is under test: IndustryIndexer v3.0 and both ProductMatchers
\* start as the page load leaves them, the other three start loaded
Det_Init ==
    \E e \in Det_Engines :
        /\ detEngine = e
        /\ IF e = "V3" THEN V3_Init ELSE V3_Idle
        /\ IF e = "KE" THEN Det_KELoaded ELSE KE_Idle
        /\ IF e = "DI" THEN Det_DILoaded ELSE DI_Idle
        /\ PW_Init
        /\ PT_Init
        /\ IF e = "IM" THEN Det_IMLoaded ELSE IM_Idle
        /\ detPrev = Det_NoPrev

\* the normalizers
InitNorm ==
    /\ NormInit
    /\ V3_Idle
    /\ KE_Idle
    /\ DI_Idle
    /\ Mono_Idle
    /\ PW_Idle
    /\ PT_Idle
    /\ IM_Idle
    /\ Det_Idle

NormFrame == UNCHANGED
    <<v3Vars, keVars, diVars, monoVars, pwVars, ptVars, imVars, detVars>>

NextNorm ==
    \/ ApplyNormalizeFa /\ NormFrame
    \/ ApplyNormalize /\ NormFrame
    \/ ApplyV3NormalizeText /\ NormFrame
    \/ ApplyKENormalizeText /\ NormFrame

SpecNorm == InitNorm /\ [][NextNorm]_vars

\* IndustryIndexer v3.0
InitV3 ==
    /\ V3_Init
    /\ NormIdle
    /\ KE_Idle
    /\ DI_Idle
    /\ Mono_Idle
    /\ PW_Idle
    /\ PT_Idle
    /\ IM_Idle
    /\ Det_Idle

V3_Frame == UNCHANGED
    <<normVars, keVars, diVars, monoVars, pwVars, ptVars, imVars, detVars>>

NextV3 ==
    \/ V3_AddIndustry /\ V3_Frame
    \/ V3_BestMatch /\ V3_Frame
    \/ V3_LoadStart /\ V3_Frame
    \/ V3_LoadFetchFail /\ V3_Frame
    \/ V3_LoadFetchOk /\ V3_Frame
    \/ V3_LoadJsonFail /\ V3_Frame
    \/ V3_LoadJsonDone /\ V3_Frame

SpecV3 == InitV3 /\ [][NextV3]_vars

\* KnowledgeEngine
InitKE ==
    /\ KE_Init
    /\ NormIdle
    /\ V3_Idle
    /\ DI_Idle
    /\ Mono_Idle
    /\ PW_Idle
    /\ PT_Idle
    /\ IM_Idle
    /\ Det_Idle

KE_Frame == UNCHANGED
    <<normVars, v3Vars, diVars, monoVars, pwVars, ptVars, imVars, detVars>>

NextKE ==
    \/ KE_InitStart /\ KE_Frame
    \/ KE_IntentFetchFail /\ KE_Frame
    \/ KE_IntentFetchOk /\ KE_Frame
    \/ KE_IntentJsonDone /\ KE_Frame
    \/ KE_AutoHeadFail /\ KE_Frame
    \/ KE_AutoHeadOk /\ KE_Frame
    \/ KE_KbFetchFail /\ KE_Frame
    \/ KE_KbFetchOk /\ KE_Frame
    \/ KE_KbJsonFail /\ KE_Frame
    \/ KE_KbJsonDone /\ KE_Frame
    \/ KE_Query /\ KE_Frame

SpecKE == InitKE /\ [][NextKE]_vars

\* IndustryIndexer (dictionary-based)
InitDI ==
    /\ DI_Init
    /\ NormIdle
    /\ V3_Idle
    /\ KE_Idle
    /\ Mono_Idle
    /\ PW_Idle
    /\ PT_Idle
    /\ IM_Idle
    /\ Det_Idle

DI_Frame == UNCHANGED
    <<normVars, v3Vars, keVars, monoVars, pwVars, ptVars, imVars, detVars>>

NextDI ==
    \/ DI_InitStart /\ DI_Frame
    \/ DI_FetchFail /\ DI_Frame
    \/ DI_FetchOk /\ DI_Frame
    \/ DI_JsonFail /\ DI_Frame
    \/ DI_JsonDone /\ DI_Frame
    \/ DI_BestMatch /\ DI_Frame

SpecDI == InitDI /\ [][NextDI]_vars

\* the scores as functions of the query
InitMono ==
    /\ Mono_Init
    /\ NormIdle
    /\ V3_Idle
    /\ KE_Idle
    /\ DI_Idle
    /\ PW_Idle
    /\ PT_Idle
    /\ IM_Idle
    /\ Det_Idle

Mono_Frame == UNCHANGED
    <<normVars, v3Vars, keVars, diVars, pwVars, ptVars, imVars, detVars>>

NextMono ==
    \/ ApplyIndustryScoreForText /\ Mono_Frame
    \/ ApplyScoreCandidate /\ Mono_Frame
    \/ ApplyKeywordHitScore /\ Mono_Frame

SpecMono == InitMono /\ [][NextMono]_vars

\* ProductMatcher (weight-based)
InitPW ==
    /\ PW_Init
    /\ NormIdle
    /\ V3_Idle
    /\ KE_Idle
    /\ DI_Idle
    /\ Mono_Idle
    /\ PT_Idle
    /\ IM_Idle
    /\ Det_Idle

PW_Frame == UNCHANGED
    <<normVars, v3Vars, keVars, diVars, monoVars, ptVars, imVars, detVars>>

NextPW ==
    \/ PW_InitArray /\ PW_Frame
    \/ PW_InitOther /\ PW_Frame
    \/ PW_InitUrl /\ PW_Frame
    \/ PW_FetchFail /\ PW_Frame
    \/ PW_FetchOk /\ PW_Frame
    \/ PW_JsonFail /\ PW_Frame
    \/ PW_JsonDone /\ PW_Frame
    \/ PW_PickProducts /\ PW_Frame

SpecPW == InitPW /\ [][NextPW]_vars

\* ProductMatcher (tag-based)
InitPT ==
    /\ PT_Init
    /\ NormIdle
    /\ V3_Idle
    /\ KE_Idle
    /\ DI_Idle
    /\ Mono_Idle
    /\ PW_Idle
    /\ IM_Idle
    /\ Det_Idle

PT_Frame == UNCHANGED
    <<normVars, v3Vars, keVars, diVars, monoVars, pwVars, imVars, detVars>>

NextPT ==
    \/ PT_InitDefault /\ PT_Frame
    \/ PT_InitRemote /\ PT_Frame
    \/ PT_FetchFail /\ PT_Frame
    \/ PT_FetchOk /\ PT_Frame
    \/ PT_JsonFail /\ PT_Frame
    \/ PT_JsonDone /\ PT_Frame
    \/ PT_PickProducts /\ PT_Frame

SpecPT == InitPT /\ [][NextPT]_vars

\* IntentMatcher
InitIM ==
    /\ IM_Init
    /\ NormIdle
    /\ V3_Idle
    /\ KE_Idle
    /\ DI_Idle
    /\ Mono_Idle
    /\ PW_Idle
    /\ PT_Idle
    /\ Det_Idle

IM_Frame == UNCHANGED
    <<normVars, v3Vars, keVars, diVars, monoVars, pwVars, ptVars, detVars>>

NextIM ==
    \/ IM_InitStart /\ IM_Frame
    \/ IM_FetchFail /\ IM_Frame
    \/ IM_FetchOk /\ IM_Frame
    \/ IM_JsonFail /\ IM_Frame
    \/ IM_JsonDone /\ IM_Frame
    \/ IM_MatchIntent /\ IM_Frame

SpecIM == InitIM /\ [][NextIM]_vars

\* the matchers called twice
InitDet ==
    /\ Det_Init
    /\ NormIdle
    /\ Mono_Idle

NextDet ==
    \/ Det_V3AddIndustry
    \/ Det_V3BestMatch
    \/ Det_KEQuery
    \/ Det_KEIntents
    \/ Det_DIBestMatch
    \/ Det_PWInitArray
    \/ Det_PWPickProducts
    \/ Det_PTInitDefault
    \/ Det_PTPickProducts
    \/ Det_IMMatchIntent

SpecDet == InitDet /\ [][NextDet]_vars

----------------------------------------------------------------------------
(* IndustryIndexer v3.0: what the claims speak of *)

\* k is a whitespace-separated token of the phrase nk
IsTokenOf(k, nk) ==
    /\ k # <<>>
    /\ " " \notin Range(k)
    /\ includes(<<" ">> \o nk \o <<" ">>, <<" ">> \o k \o <<" ">>)

\* some keyword of ind normalizes to the non-empty phrase k, or has k as a
\* token of length >= 2
OwnsKey(ind, k) ==
    \E j \in DOMAIN ind.keywords :
        LET nk == V3_normalizeText(ind.keywords[j])
        IN  nk # <<>> /\ (k = nk \/ (Len(k) >= 2 /\ IsTokenOf(k, nk)))

\* the index KI is the index of the catalog IND
IndexOf(KI, IND) ==
    /\ \A a, b \in DOMAIN KI : KI[a].key = KI[b].key => a = b
    /\ \A a \in DOMAIN KI :
          /\ Len(KI[a].inds) = Cardinality(Range(KI[a].inds))
          /\ Range(KI[a].inds) =
                 {i \in DOMAIN IND : OwnsKey(IND[i], KI[a].key)}
          /\ KI[a].inds # <<>>
    /\ \A i \in DOMAIN IND : \A j \in DOMAIN IND[i].keywords :
          LET nk == V3_normalizeText(IND[i].keywords[j])
          IN  nk # <<>> =>
                \A k \in {nk} \cup {t \in Range(splitFilter(nk)) : Len(t) >= 2} :
                    \E a \in DOMAIN KI : KI[a].key = k /\ i \in Range(KI[a].inds)

V3_FailedLoadOps ==
    {"loadFromJSON:fetch rejected", "loadFromJSON:status not ok",
     "loadFromJSON:body not json"}

\* the entries addIndustry makes of the valid records of arr, in order
ValidEntries(arr) ==
    LET ok == SelectSeq(arr, LAMBDA o : ~(o.isNull \/ o.code = "" \/ ~o.kwIsArray))
    IN  [k \in DOMAIN ok |->
            [code |-> ok[k].code,
             name_fa |-> IF ok[k].name_fa = "" THEN ok[k].code ELSE ok[k].name_fa,
             name_en |-> IF ok[k].name_en = "" THEN ok[k].code ELSE ok[k].name_en,
             keywords |-> ok[k].keywords]]

(* C1: in the v3.0 IndustryIndexer, after module load and after any        *)
(* sequence of addIndustry and loadFromJSON calls, keywordIndex is exactly *)
(* the index derived from INDUSTRIES: a key lists position i exactly when  *)
(* a keyword of INDUSTRIES[i] normalizes to it or has it as a token of     *)
(* length >= 2; no other keys, no missing and no stale owners.             *)
C1_IndexDerived == IndexOf(keywordIndex, INDUSTRIES)

\* after an accepted addIndustry and a load: a key with two owners, a phrase
\* of two tokens and a keyword that normalizes to nothing
C1_Witness ==
    /\ Len(INDUSTRIES) = Len(V3_BaseIndustries) + 2
    /\ \E i \in DOMAIN INDUSTRIES : INDUSTRIES[i].code = "y"
    /\ \E a \in DOMAIN keywordIndex : Len(keywordIndex[a].inds) >= 2
    /\ v3Call.op = "loadFromJSON" /\ v3Call.ret = "true"

(* C2: a bestMatch that runs at any point relative to addIndustry calls    *)
(* and to the suspension points of a loadFromJSON in flight reads a        *)
(* keywordIndex that is the index of the complete INDUSTRIES list; never   *)
(* the cleared map, never the keys of only some industries.                *)
C2_BestMatchSeesWholeIndex ==
    v3Call.op = "bestMatch" =>
        /\ v3Call.preIdx # <<>>
        /\ IndexOf(v3Call.preIdx, v3Call.preInd)

\* bestMatch between the two awaits of a load, after an addIndustry
C2_Witness ==
    /\ v3Call.op = "bestMatch"
    /\ v3Load = "json"
    /\ Len(v3Call.preInd) > Len(V3_BaseIndustries)
    /\ v3Call.result.found

(* C5: a loadFromJSON that fails as a whole (fetch rejects, status not OK, *)
(* body not JSON, payload not an array) resolves to false and leaves       *)
(* INDUSTRIES and keywordIndex as they were; its earlier segments change   *)
(* neither.                                                                *)
C5_FailedLoadChangesNothing ==
    /\ (\/ v3Call.op \in V3_FailedLoadOps
        \/ v3Call.op = "loadFromJSON" /\ ~v3Call.payload.isArray)
       => /\ v3Call.ret = "false"
          /\ INDUSTRIES = v3Call.preInd
          /\ keywordIndex = v3Call.preIdx
    /\ v3Call.op \in {"loadFromJSON.start", "loadFromJSON.fetched"}
       => /\ INDUSTRIES = v3Call.preInd
          /\ keywordIndex = v3Call.preIdx

\* a body that wraps records, on a catalog that has grown
C5_Witness ==
    /\ v3Call.op = "loadFromJSON"
    /\ ~v3Call.payload.isArray
    /\ v3Call.payload.items # <<>>
    /\ Len(INDUSTRIES) > Len(V3_BaseIndustries)

(* C6: round trip: for every record accepted by addIndustry and every      *)
(* keyword K of it (that normalizes to a non-empty text), a following      *)
(* bestMatch(K) returns the record's code with a score at or above the     *)
(* threshold (default 0.25), whatever else is in the catalog and however   *)
(* many keywords the record has.                                           *)
C6_RoundTrip ==
    (v3Call.op = "addIndustry" /\ v3Call.ret = "true") =>
        \A j \in DOMAIN v3Call.obj.keywords :
            LET K == v3Call.obj.keywords[j]
                r == V3_bestMatch(INDUSTRIES, keywordIndex, K,
                                  V3_DefaultThreshold)
            IN  V3_normalizeText(K) # <<>> =>
                    /\ r.found
                    /\ r.code = v3Call.obj.code
                    /\ RatLeq(V3_DefaultThreshold, r.score)

(* C7: addIndustry throws on every record with no code or with keywords    *)
(* that is no list, and then leaves INDUSTRIES and keywordIndex unchanged; *)
(* an accepted call returns true and appends exactly one entry with the    *)
(* record's code and keywords.                                             *)
C7_AddIndustryValidates ==
    v3Call.op = "addIndustry" =>
        IF v3Call.obj.isNull \/ v3Call.obj.code = "" \/ ~v3Call.obj.kwIsArray
        THEN /\ v3Call.ret = "throw"
             /\ INDUSTRIES = v3Call.preInd
             /\ keywordIndex = v3Call.preIdx
        ELSE /\ v3Call.ret = "true"
             /\ Len(INDUSTRIES) = Len(v3Call.preInd) + 1
             /\ SubSeq(INDUSTRIES, 1, Len(v3Call.preInd)) = v3Call.preInd
             /\ INDUSTRIES[Len(INDUSTRIES)].code = v3Call.obj.code
             /\ INDUSTRIES[Len(INDUSTRIES)].keywords = v3Call.obj.keywords

\* a record without a list of keywords, rejected after an accepted record
C7_Witness ==
    /\ v3Call.op = "addIndustry"
    /\ v3Call.ret = "throw"
    /\ ~v3Call.obj.isNull /\ v3Call.obj.code # ""
    /\ Len(INDUSTRIES) > Len(V3_BaseIndustries)

(* C8: when loadFromJSON receives an array with invalid records, every     *)
(* valid record is added, in array order, every invalid one is skipped     *)
(* without ending the batch, and the call resolves to true.                *)
C8_BulkLoadSkipsInvalid ==
    (v3Call.op = "loadFromJSON" /\ v3Call.payload.isArray) =>
        /\ v3Call.ret = "true"
        /\ INDUSTRIES = v3Call.preInd \o ValidEntries(v3Call.payload.items)

\* an array with an invalid record before, and one between, two valid ones
C8_Witness ==
    /\ v3Call.op = "loadFromJSON"
    /\ v3Call.payload.isArray
    /\ \E a, b, c \in DOMAIN v3Call.payload.items :
          /\ a < b /\ b < c
          /\ v3Call.payload.items[b].isNull
          /\ v3Call.payload.items[a].code = "y"
          /\ v3Call.payload.items[c].code = "x"
    /\ Len(INDUSTRIES) = Len(v3Call.preInd) + 2

(* C9: entity ids are unique within a catalog in every reachable state:    *)
(* after any sequence of addIndustry and loadFromJSON calls no two entries *)
(* of INDUSTRIES have the same code (the first of the two catalogs the     *)
(* claim names; the claim fails as soon as one of them holds a duplicate). *)
C9_UniqueCodes ==
    \A i, j \in DOMAIN INDUSTRIES :
        INDUSTRIES[i].code = INDUSTRIES[j].code => i = j

(* C26: in the v3.0 IndustryIndexer, one addIndustry call performs exactly *)
(* one index rebuild, and one loadFromJSON call that adds n >= 1 valid     *)
(* records performs exactly one index rebuild for the whole batch.         *)
C26_OneRebuildPerCall ==
    /\ (v3Call.op = "addIndustry" /\ v3Call.ret = "true") =>
            V3_rebuildsOfAdd(v3Call.obj) = 1
    /\ (/\ v3Call.op = "loadFromJSON"
        /\ v3Call.ret = "true"
        /\ V3_NumValid(v3Call.payload.items) >= 1) =>
            V3_rebuildsOfLoad(v3Call.payload) = 1

----------------------------------------------------------------------------
(* KnowledgeEngine: what the claims speak of *)

(* C11: every score returned by a matcher lies in [0,1] for every query    *)
(* text and every catalog; here the score of the v3.0 bestMatch, in its    *)
(* phrase, token-overlap and substring stages, also for texts that repeat  *)
(* a token (the first of the matchers the claim names; the claim fails as  *)
(* soon as one of them returns a score outside [0,1]).                     *)
C11_ScoreInUnitInterval ==
    (v3Call.op = "bestMatch" /\ v3Call.result.found) =>
        /\ RatLeq(Rat(0, 1), v3Call.result.score)
        /\ RatLeq(v3Call.result.score, Rat(1, 1))

(* C3: if init fails (fetch error, non-OK status, malformed payload or     *)
(* empty path) after an earlier init had loaded a non-empty knowledge      *)
(* base, the earlier entries are still held; the knowledge base is empty   *)
(* after a failed init only when no load has ever succeeded.               *)
C3_FailedInitKeepsKb ==
    (keCall.op = "init" /\ ~keCall.ok /\ keLastGood # <<>>) =>
        kb = keLastGood

(* C19: on an initialized engine, a query with empty, undefined or null     *)
(* text, or text that normalizes to the empty string (only spaces or       *)
(* punctuation), returns an empty result and never throws or rejects.      *)
(* Stated here for KnowledgeEngine.query, whose text <<>> stands for '',   *)
(* null and undefined alike.                                               *)
C19_EmptyQueryEmptyResult ==
    (/\ keQuery.n = 1 /\ keQuery.inited
     /\ KE_normalizeText(keQuery.text) = <<>>) => keQuery.result = <<>>

\* the task t is inside a call of init that has not returned
KE_InInit(t) ==
    keTasks[t].pc \in {"intentFetch", "intentJson", "kbFetch", "kbJson"}

\* every call of init has returned
KE_AllSettled == \A t \in DOMAIN keTasks : ~KE_InInit(t)

(* C28: when two KnowledgeEngine.init calls overlap (the second is called  *)
(* while the first is suspended on a fetch, including the automatic init   *)
(* at script load and the lazy init started by query), then once both have *)
(* settled, in whichever order their fetches complete, the knowledge base  *)
(* and the initialized flag are those produced by the init that was called *)
(* last, and they correspond to the path stored in _kbPath.  _kbPath is    *)
(* the path of the init called last; when it is the empty path that init   *)
(* has produced an empty knowledge base and the flag false.                *)
C28_LastCalledInitWins ==
    (KE_AllSettled /\ kbPath = "") => (kb = <<>> /\ ~indexInitialized)

\* the call of init in the task t returns in this step
KE_InitReturns(t) ==
    /\ KE_InInit(t)
    /\ keTasks'[t].pc = "free"
    /\ keCall'.op = "init"
    /\ keCall'.task = t

(* C29: in every state of the KnowledgeEngine that another call can        *)
(* observe, under any interleaving of init and query calls: if the         *)
(* initialized flag is false the knowledge base is empty, and if it is     *)
(* true the knowledge base is the complete normalized entry list of one    *)
(* successful load (every entry has a non-empty id, a string title and a   *)
(* keyword list); at the moment an init resolves with ok true and count n  *)
(* the flag is true and the knowledge base has n entries, and at the       *)
(* moment it resolves with ok false the flag is false.                     *)
C29_ObservableStates ==
    [][/\ ~indexInitialized' => kb' = <<>>
       /\ indexInitialized' =>
             /\ kb' = keLastGood'
             /\ \A k \in DOMAIN kb' : kb'[k].id # ""
       /\ \A t \in DOMAIN keTasks :
             KE_InitReturns(t) =>
                IF keCall'.ok
                THEN indexInitialized' /\ Len(kb') = keCall'.count
                ELSE ~indexInitialized'
      ]_vars

----------------------------------------------------------------------------
(* IndustryIndexer (dictionary-based): what the claims speak of *)

\* idx holds every industry of the payload data, in order, each with its
\* normalized aliases
FullIndexOf(idx, data) ==
    /\ Len(idx) = Len(data.industries)
    /\ \A j \in DOMAIN idx :
          /\ idx[j].code = data.industries[j].code
          /\ data.industries[j].kind = "list" =>
                /\ \A a \in Range(idx[j].aliases) :
                      \E b \in Range(data.industries[j].aliases) :
                          a = DI_normalize(b) /\ a # <<>>
                /\ \A b \in Range(data.industries[j].aliases) :
                      DI_normalize(b) # <<>> =>
                          DI_normalize(b) \in Range(idx[j].aliases)

(* C4: after init of the dictionary-based IndustryIndexer has been called  *)
(* with a payload that is malformed or of the wrong shape, the pair        *)
(* (dict, industryIndex) is either what it was before the call or the      *)
(* fully built index of the new payload: never an index that holds only    *)
(* some of the payload's industries or does not correspond to dict.        *)
C4_InitAllOrNothing ==
    diCall.op = "init" =>
        \/ dict = diCall.preDict /\ industryIndex = diCall.preIdx
        \/ dict = diCall.data /\ FullIndexOf(industryIndex, diCall.data)

\* the result of industryScoreForText for industry r rests on the edit
\* distance alone: its reason is fuzzy:a and no token of the text is a or
\* holds a
DI_FuzzyOnly(textTokens, r) ==
    /\ r.reason.kind = "fuzzy"
    /\ DI_hitCount(textTokens, <<r.reason.alias>>) = 0

(* C12: in the dictionary-based IndustryIndexer an alias contained in the  *)
(* normalized query as a contiguous substring scores exactly 1.0 for the   *)
(* alias signal, and an industry whose best alias is matched by phrase     *)
(* containment is ranked strictly above every industry whose best alias is *)
(* matched only by the edit-distance fuzzy signal, also after the          *)
(* generic-alias penalty and the multi-alias bonus.                        *)
C12_PhraseScoresOne ==
    (diCall.op = "bestMatch" /\ diCall.ret = "result") =>
        LET txt == diCall.result.rawText
            textTokens == DI_tokensOf(DI_normalize(txt))
            joinedText == join(textTokens)
            R == DI_industryScoreForText(industryIndex, txt)
        IN  /\ \A k \in DOMAIN industryIndex :
                  \A a \in Range(industryIndex[k].aliases) :
                      includes(txt, a) =>
                          RatEq(DI_scoreAgainstAlias(textTokens, joinedText,
                                                     a).score, Rat(1, 1))
            /\ \A i, j \in DOMAIN R :
                  (R[i].reason.kind = "phrase"
                     /\ DI_FuzzyOnly(textTokens, R[j])) =>
                        i < j /\ RatLt(R[j].score, R[i].score)

\* the industry codes of DI_Payloads in lexicographic order
DI_CodesInOrder == <<"food", "general", "machining", "metal", "welding">>

DI_CodeLeq(a, b) ==
    \E i, j \in DOMAIN DI_CodesInOrder :
        i <= j /\ DI_CodesInOrder[i] = a /\ DI_CodesInOrder[j] = b

(* C15: every ranked list returned by KnowledgeEngine.query, the           *)
(* dictionary-based IndustryIndexer.bestMatch and ProductMatcher           *)
(* .pickProducts is in non-increasing score order, and results with equal  *)
(* scores appear in lexicographic order of entity id or display name, so   *)
(* the order does not depend on the order of loading. Stated here for the  *)
(* matches of the dictionary-based bestMatch.                              *)
C15_TiesInLexOrder ==
    (diCall.op = "bestMatch" /\ diCall.ret = "result") =>
        LET M == diCall.result.matches
        IN  \A i, j \in DOMAIN M :
                i < j =>
                    /\ RatLeq(M[j].score, M[i].score)
                    /\ RatEq(M[i].score, M[j].score) =>
                          \/ DI_CodeLeq(M[i].code, M[j].code)
                          \/ LexLeq(M[i].name_fa, M[j].name_fa)

(* C17: with the dictionary-based IndustryIndexer initialized on a catalog *)
(* of one industry whose only alias is the Persian word for welding        *)
(* (jim-vav-shin-kaf-alef-re-yeh), bestMatch of the sentence "I am a       *)
(* welder" (which holds the word without its final yeh) returns that       *)
(* industry's code as a match and the reason reported for it begins with   *)
(* phrase:.                                                                *)
C17_PhraseReason ==
    (/\ diCall.op = "bestMatch" /\ diCall.ret = "result"
     /\ diCall.text = Str_man_jushkar_hastam
     /\ industryIndex = <<[code |-> "welding", aliases |-> <<Str_jushkari>>]>>)
        => \E m \in Range(diCall.result.matches) :
               m.code = "welding" /\ m.reason.kind = "phrase"

\* the aliases a of industry k that the text misspells: a is one token of
\* length >= 5, the text is one token at edit distance 1 from it, and no
\* alias of the index lies in the text or has a token that is a token of the
\* text or lies inside one
DI_Misspelled(index, txt) ==
    LET textTokens == DI_tokensOf(DI_normalize(txt))
        joinedText == join(textTokens)
    IN  {ka \in {<<k, j>> : k \in DOMAIN index, j \in 1..5} :
            /\ ka[2] \in DOMAIN index[ka[1]].aliases
            /\ LET a == index[ka[1]].aliases[ka[2]]
               IN  /\ splitFilter(a) = <<a>>
                   /\ Len(a) >= 5
                   /\ Len(textTokens) = 1
                   /\ DI_levenshtein(a, textTokens[1]) = 1
            /\ \A k \in DOMAIN index :
                  \A b \in Range(index[k].aliases) :
                      /\ ~includes(joinedText, b)
                      /\ DI_hitCount(textTokens, splitFilter(b)) = 0}

(* C21: in the dictionary-based IndustryIndexer, for every registered      *)
(* single-token alias k of length >= 5 and every single-token query q at   *)
(* edit distance exactly 1 from k with no exact, substring or token match  *)
(* against any alias, bestMatch(q) returns k's industry among its matches  *)
(* with the fuzzy reason for k and a score at or above the reporting floor *)
(* of 0.10.                                                                *)
C21_FuzzyResolves ==
    (diCall.op = "bestMatch" /\ diCall.ret = "result" /\ diCall.topN = 0) =>
        \A ka \in DI_Misspelled(industryIndex, diCall.result.rawText) :
            \E m \in Range(diCall.result.matches) :
                /\ m.code = industryIndex[ka[1]].code
                /\ m.reason = DI_Reason("fuzzy",
                                  industryIndex[ka[1]].aliases[ka[2]], 0, 0)
                /\ RatLeq(DI_MIN_SCORE, m.score)

(* C21 as amended: for such k and q, industryScoreForText gives k's        *)
(* industry a fuzzy reason, for k or for another one-token alias of the    *)
(* same industry that is at least as similar to q, and a score at or above *)
(* the floor of 0.10; bestMatch(q, {topN}) returns the industry among its  *)
(* matches with that reason and that score rounded to three places         *)
(* whenever the industry is among the first topN (3 by default) of the     *)
(* ranking.                                                                *)
C21_FuzzyResolvesWithinTopN ==
    (diCall.op = "bestMatch" /\ diCall.ret = "result") =>
        LET txt == diCall.result.rawText
            q == DI_tokensOf(DI_normalize(txt))[1]
            R == DI_industryScoreForText(industryIndex, txt)
            n == IF diCall.topN = 0 THEN 3 ELSE diCall.topN
        IN  \A ka \in DI_Misspelled(industryIndex, txt) :
                LET e == industryIndex[ka[1]]
                    a == e.aliases[ka[2]]
                IN  \E i \in DOMAIN R :
                        /\ R[i].code = e.code
                        /\ R[i].reason.kind = "fuzzy"
                        /\ R[i].reason.alias \in Range(e.aliases)
                        /\ RatLeq(DI_levSim(a, q),
                                  DI_levSim(R[i].reason.alias, q))
                        /\ RatLeq(DI_MIN_SCORE, toFixed3(R[i].score))
                        /\ i <= n =>
                              \E m \in Range(diCall.result.matches) :
                                  /\ m.code = e.code
                                  /\ m.reason = R[i].reason
                                  /\ m.score = toFixed3(R[i].score)

\* bestMatch('weldex') on the index {metal: [welded], welding: [welder, ab]}
\* returns both industries, each by the fuzzy reason for its alias
C21_Witness ==
    /\ diCall.op = "bestMatch" /\ diCall.ret = "result" /\ diCall.topN = 0
    /\ diCall.text = Str_weldex
    /\ Cardinality(DI_Misspelled(industryIndex, diCall.result.rawText)) = 2
    /\ Len(industryIndex) = 2
    /\ Len(diCall.result.matches) = 2
    /\ \A m \in Range(diCall.result.matches) : m.reason.kind = "fuzzy"

----------------------------------------------------------------------------
(* The scores as functions of the query: what the claims speak of *)

(* C13: token-overlap monotonicity: for every query q, every entity e and  *)
(* every token t that matches e (a token of one of e's keywords or of its  *)
(* title, possibly one already present in q), the score of e for q with t  *)
(* added is never lower than the score of e for q, both in the             *)
(* dictionary-based industryScoreForText and in scoreCandidate.            *)
C13_AddingMatchNeverLowers ==
    monoFn \in {"industryScoreForText", "scoreCandidate"} =>
        RatLeq(monoOut.before, monoOut.after)

\* kw occurs in txt as a whole word: delimited by spaces or by the ends of
\* the text
WholeWordIn(kw, txt) ==
    \E p \in 1..(Len(txt) - Len(kw) + 1) :
        /\ toLowerCase(SubSeq(txt, p, p + Len(kw) - 1)) = toLowerCase(kw)
        /\ p = 1 \/ txt[p - 1] = " "
        /\ p + Len(kw) - 1 = Len(txt) \/ txt[p + Len(kw)] = " "

\* the number of keywords of e that are whole words of the normalized text,
\* divided by the number of keywords of e, capped at 1
WholeWordRatio(e, text) ==
    LET txt == KE_normalizeText(text)
        hits == Cardinality({k \in DOMAIN e.keywords :
                                /\ e.keywords[k] # <<>>
                                /\ WholeWordIn(e.keywords[k], txt)})
    IN  IF e.keywords = <<>> THEN Rat(0, 1)
        ELSE RatMin(Rat(1, 1), Rat(hits, Len(e.keywords)))

(* C27: keywordHitScore of the KnowledgeEngine counts a keyword of an      *)
(* entry as a hit exactly when the keyword occurs in the normalized text   *)
(* as a whole word (delimited by spaces or by the ends of the text), for   *)
(* Persian-script keywords as for Latin-script keywords, and returns the   *)
(* number of hit keywords divided by the number of the entry's keywords,   *)
(* capped at 1.                                                            *)
C27_WholeWordHits ==
    monoFn = "keywordHitScore" =>
        /\ RatEq(monoOut.before, WholeWordRatio(monoIn.e, monoIn.q))
        /\ RatEq(monoOut.after,
                 WholeWordRatio(monoIn.e,
                                Mono_WithToken(monoIn.q, monoIn.t)))

\* C27 for the entries whose keywords are all in Latin script
C27_WholeWordHits_Latin ==
    (\A k \in DOMAIN monoIn.e.keywords :
        \A i \in DOMAIN monoIn.e.keywords[k] :
            monoIn.e.keywords[k][i] \in LatinLower \cup {" "})
        => C27_WholeWordHits

----------------------------------------------------------------------------
(* ProductMatcher (weight-based): what the claims speak of *)

\* C16 (the weight-based ProductMatcher): when at least one product of the
\* catalog reaches the minimum score 0.12, every product pickProducts returns
\* reaches it; products below the minimum are returned only when none
\* reaches it, and then at most 3; the list never has more than topN
\* products (6 when the option is absent).
C16_MinScorePolicy ==
    (pwCall.op = "pickProducts" /\ pwCall.ret = "result") =>
        LET scored == PW_scored(products, pwCall.input)
            res == pwCall.result
            reaches(r) == RatLeq(PW_minRelevant, r.score)
            n == IF pwCall.topN = 0 THEN PW_defaultTopN ELSE pwCall.topN
        IN  /\ Len(res) <= n
            /\ (\E k \in DOMAIN scored : reaches(scored[k])) =>
                   \A k \in DOMAIN res : reaches(res[k])
            /\ (\A k \in DOMAIN scored : ~reaches(scored[k])) =>
                   Len(res) <= PW_fallbackCount

----------------------------------------------------------------------------
(* ProductMatcher (tag-based): what the claims speak of *)

\* the product's tags match the hazard cut
PT_MatchesCut(prod) == PT_has(prod, <<"c","u","t">>)

\* the product's tags match the oily environment
PT_MatchesOily(prod) ==
    PT_has(prod, <<"n","i","t","r","i","l","e">>) \/ PT_has(prod, <<"o","i","l">>)

\* the positions of the product with this id in a result list
PT_Places(res, id) == {k \in DOMAIN res : res[k].id = id}

\* C18: for every two products P and Q of the catalog such that P's tags
\* match both the hazard cut and the oily environment and Q's tags match
\* only one of the two, pickProducts({hazard: 'cut', env: 'oily'}) places P
\* strictly above Q: whenever Q is returned, P is returned at an earlier
\* position.
C18_BothAxesAboveOneAxis ==
    (/\ ptCall.op = "pickProducts"
     /\ ptCall.query = PT_Query(<<"c","u","t">>, <<"o","i","l","y">>, <<>>, <<>>)) =>
        \A p, q \in DOMAIN catalog :
            LET P == catalog[p]
                Q == catalog[q]
            IN  (/\ PT_MatchesCut(P) /\ PT_MatchesOily(P)
                 /\ PT_MatchesCut(Q) # PT_MatchesOily(Q)) =>
                    \A j \in PT_Places(ptCall.result, Q.id) :
                        \E i \in PT_Places(ptCall.result, P.id) : i < j

\* C20: for an empty query (no hazard, environment or preference) on a
\* non-empty catalog, no product receives a score above zero in either
\* ProductMatcher, and pickProducts returns an empty list.
C20_EmptyQueryNothingReturned ==
    /\ (/\ ptCall.op = "pickProducts"
        /\ ptCall.query = PT_NoQuery
        /\ catalog # <<>>) =>
            /\ ptCall.result = <<>>
            /\ \A k \in DOMAIN catalog :
                   RatEq(PT_scoreProduct(catalog[k], PT_NoQuery), Rat(0, 1))
    /\ (/\ pwCall.op = "pickProducts"
        /\ pwCall.ret = "result"
        /\ pwCall.input = PW_NoInput
        /\ products # <<>>) =>
            /\ pwCall.result = <<>>
            /\ \A k \in DOMAIN products :
                   RatEq(PW_scored(products, PW_NoInput)[k].score, Rat(0, 1))

----------------------------------------------------------------------------
(* IntentMatcher: what the claims speak of *)

\* matchIntent has returned a result
IM_Matched == imCall.op = "matchIntent" /\ imCall.ret = "result"

\* no intent of the dictionary has a score above 0 for the text
IM_NoPositiveIntent(d, text) ==
    \A k \in DOMAIN d.intents :
        ~RatLt(Rat(0, 1), IM_computeIntentScores(d, text).intentScores[k].score)

\* C30: the result of matchIntent is never both confident and needsClarify,
\* and when no intent has a raw score above 0 the result is the intent
\* "unknown" with score 0, confident false and needsClarify true
C30_FlagsExclusive ==
    IM_Matched =>
        /\ ~(imCall.result.confident /\ imCall.result.needsClarify)
        /\ IM_NoPositiveIntent(imDict, imCall.text) =>
              /\ imCall.result.intent = "unknown"
              /\ RatEq(imCall.result.score, Rat(0, 1))
              /\ ~imCall.result.confident
              /\ imCall.result.needsClarify

\* the second half of C30 alone: the result when no intent has a raw score
\* above 0
C30_UnknownWhenNoScore ==
    (IM_Matched /\ IM_NoPositiveIntent(imDict, imCall.text)) =>
        /\ imCall.result.intent = "unknown"
        /\ RatEq(imCall.result.score, Rat(0, 1))
        /\ ~imCall.result.confident
        /\ imCall.result.needsClarify

\* the first half of C30 for the dictionaries whose low threshold is not
\* above the high one
C30_FlagsExclusive_Ordered ==
    (IM_Matched
       /\ RatLeq(IF imDict.settings.min_intent_score.n # 0
                 THEN imDict.settings.min_intent_score ELSE IM_defaultMin,
                 IF imDict.settings.high_confidence.n # 0
                 THEN imDict.settings.high_confidence ELSE IM_defaultHigh)) =>
        ~(imCall.result.confident /\ imCall.result.needsClarify)

----------------------------------------------------------------------------
(* The matchers before and after a failed load: what the claims speak of *)

\* the kind of outcome of a lookup in the state it is called in
DI_Throws(d, index) == DI_bestMatch(d, index, <<>>, 0).threw

IM_Throws(d) == d.isNull

PW_Throws(rdy) == ~rdy

(* C22: within each matcher, a query issued while no load has ever         *)
(* succeeded always has the same kind of outcome, whatever failed loads    *)
(* came before it (IntentMatcher.matchIntent, the dictionary-based         *)
(* IndustryIndexer.bestMatch and the weight-based ProductMatcher           *)
(* .pickProducts throw the not-initialized error, KnowledgeEngine.query    *)
(* resolves to an empty list), and once a load has succeeded, a later      *)
(* failed load never turns the matcher back into the uninitialized         *)
(* outcome.  As a property of every step: a load that fails leaves the     *)
(* kind of outcome of the matcher's lookup as it was, and a failed init of *)
(* the KnowledgeEngine that follows a successful one leaves the engine     *)
(* initialized.                                                            *)
C22_FailedLoadKeepsOutcome ==
    [][/\ (diLoad.pc # "idle" /\ diLoad'.pc = "idle"
             /\ diCall'.ret = "rejected") =>
                DI_Throws(dict', industryIndex')
                    = DI_Throws(dict, industryIndex)
       /\ (imLoad # "idle" /\ imLoad' = "idle"
             /\ imCall'.ret = "rejected") =>
                IM_Throws(imDict') = IM_Throws(imDict)
       /\ (pwCall'.op = "init" /\ pwCall'.ret = "rejected") =>
                PW_Throws(ready') = PW_Throws(ready)
       /\ (keCall'.op = "init" /\ ~keCall'.ok /\ keTasks' # keTasks
             /\ keLastGood # <<>>) =>
                indexInitialized' /\ kb' # <<>>
      ]_vars

----------------------------------------------------------------------------
(* The lookups as steps: what the claims speak of *)

(* C23: lookups have no side effects: KnowledgeEngine.query, both          *)
(* IndustryIndexer.bestMatch, IntentMatcher.matchIntent and both           *)
(* ProductMatcher.pickProducts leave the catalog, the index, the loaded    *)
(* intent list and the initialized flags exactly as they were and start no *)
(* load, in every state including the uninitialized one.  (detectIntent    *)
(* and isKBQuestion are functions of the text and _intentKeywords and      *)
(* assign nothing.)                                                        *)
C23_LookupsChangeNothing ==
    [][/\ (keTasks # <<>> /\ KE_Query) =>
             UNCHANGED <<kb, indexInitialized, intentKeywords, kbPath,
                         keTasks>>
       /\ (INDUSTRIES # <<>> /\ V3_BestMatch) =>
             UNCHANGED <<INDUSTRIES, keywordIndex, v3Load>>
       /\ DI_BestMatch => UNCHANGED <<dict, industryIndex, diLoad>>
       /\ IM_MatchIntent => UNCHANGED <<imDict, imLoad>>
       /\ PW_PickProducts => UNCHANGED <<products, ready, pwLoad>>
       /\ PT_PickProducts => UNCHANGED <<catalog, ptLoad>>
      ]_vars

----------------------------------------------------------------------------
(* The six matchers: what the claims speak of *)

----------------------------------------------------------------------------
(* The normalizers: what the claims speak of *)

(* C10: every normalizer is idempotent on every input string, also on      *)
(* inputs with leading or trailing punctuation:                            *)
(* normalize(normalize(x)) = normalize(x) for normalizeFa, normalize and   *)
(* both normalizeText.                                                     *)
C10_Idempotent == nFn # "none" => nOut2 = nOut

\* the ASCII digit of the same numeric value as the Persian digit c
AsciiDigitOf(c) ==
    LET persian == <<"P0","P1","P2","P3","P4","P5","P6","P7","P8","P9">>
        ascii == <<"0","1","2","3","4","5","6","7","8","9">>
    IN  IF c \in PersianDigits
        THEN ascii[CHOOSE i \in DOMAIN persian : persian[i] = c]
        ELSE c

\* the text s written with ASCII digits
WithAsciiDigits(s) == [i \in DOMAIN s |-> AsciiDigitOf(s[i])]

(* C24: digit folding: for every Persian digit d in the range U+06F0 to    *)
(* U+06F9, normalizeFa of the IntentMatcher and normalize of the           *)
(* dictionary-based IndustryIndexer map d to the ASCII digit of the same   *)
(* numeric value, so a text written with those digits normalizes to the    *)
(* same string as the text written with ASCII digits.                      *)
C24_DigitFolding ==
    /\ nFn = "normalizeFa" => nOut = IM_normalizeFa(WithAsciiDigits(nIn))
    /\ nFn = "normalize" => nOut = DI_normalize(WithAsciiDigits(nIn))

\* the half of C24 that speaks of normalize of the IndustryIndexer
C24_DigitFolding_Normalize ==
    nFn = "normalize" => nOut = DI_normalize(WithAsciiDigits(nIn))

\* the three letterforms of yeh: Arabic yeh U+064A, Persian yeh U+06CC and
\* yeh with hamza above U+0626
YehForms == {"AY", "PY", "HY"}

\* the text s with every yeh written as the Persian yeh
WithOneYeh(s) == [i \in DOMAIN s |-> IF s[i] \in YehForms THEN "PY" ELSE s[i]]

\* the normalizer that nFn names, applied to s
NormalizerOf(fn, s) ==
    CASE fn = "normalizeFa" -> IM_normalizeFa(s)
      [] fn = "normalize" -> DI_normalize(s)
      [] fn = "v3.normalizeText" -> V3_normalizeText(s)
      [] fn = "ke.normalizeText" -> KE_normalizeText(s)

(* C25: script stability: in every normalizer, the Arabic yeh, the Persian *)
(* yeh and the yeh with hamza normalize to one and the same letter, so two *)
(* texts that differ only in which of these letterforms they use normalize *)
(* to the same string.                                                     *)
C25_YehFormsUnified ==
    nFn # "none" => nOut = NormalizerOf(nFn, WithOneYeh(nIn))

====
